---- MODULE Spec2Model ----
(***************************************************************************)
(* Blue/green deployment manager (deploy_manager/cli.py, aws_client.py).   *)
(* The world is the terraform active_color output and the two auto scaling *)
(* groups; the operations are get_active_environment, deploy_to_inactive,  *)
(* _monitor_deployment, flip_traffic and deploy_and_flip.                  *)
(***************************************************************************)
EXTENDS Integers, Sequences, FiniteSets, TLC

\* ---------------------------------------------------------------- bounds
\* Largest DesiredCapacity of an auto scaling group.
MaxCap == 1
\* Most instances one sample lists.
MaxInst == 1
\* Most health entries one target group reports.
MaxTargets == 2
\* Largest stabilization period (seconds) given to deploy_and_flip.
MaxWait == 1

\* ------------------------------------------------------ program constants
max_wait_time == 600
check_interval == 10

Envs == {"blue", "green"}
TargetGroups == {"frontend", "django"}
\* The states the code counts, plus one it does not name.
HealthStates == {"healthy", "unused", "initial", "unhealthy", "draining"}

\* What a Python function hands back: a value, None, or a raised exception.
NoneVal == "None"
Raised == "raise"
RTrue == "True"
RFalse == "False"
NotReturned == "-"

\* ------------------------------------------------------------------ world
\* get_asg_info returns the group's description, or None (found = FALSE).
NoAsg == [found |-> FALSE, DesiredCapacity |-> 0, MinSize |-> 0, MaxSize |-> 0]
AsgInfos ==
    {NoAsg} \cup {[found |-> TRUE, DesiredCapacity |-> d, MinSize |-> d, MaxSize |-> d + 1] :
                    d \in 0..MaxCap}

\* Outcomes of `terraform output -json active_color` run with timeout=5.
TfOutcomes == {"ok", "timeout", "exit_nonzero", "unparsable"}
\* Outcomes of a describe call made through boto3.
AwsOutcomes == {"ok", "error"}

VARIABLES
    tfColor,        \* the active_color the terraform state declares
    asg,            \* Envs -> AsgInfos: the two auto scaling groups
    op,             \* the command running: "none", "deploy", "flip", "deploy_and_flip", "monitor"
    pc,             \* where the command is
    skip_confirm,   \* the skip_confirm argument
    target_arg,     \* flip_traffic's target_env argument (NoneVal when absent)
    answer,         \* what click.confirm returned: "-", "yes", "no"
    daf,            \* deploy_and_flip's locals [active_env, target_env]
    dti,            \* deploy_to_inactive's locals [active_env, target_env]
    flip,           \* flip_traffic's locals [active_env, target_env]
    cmd,            \* the capacity parameters of the deploy command
    wait_seconds,   \* deploy_and_flip's wait_seconds argument
    remaining,      \* seconds of the stabilization period still to sleep
    monEnv,         \* _monitor_deployment's environment argument
    elapsed,        \* _monitor_deployment's elapsed
    status,         \* the sample _monitor_deployment is looking at
    nSamples,       \* calls of get_environment_status made by the monitor
    nSleeps,        \* calls of time.sleep made by the monitor
    nReady,         \* samples drawn so far that satisfy monitor_ready
    monResult,      \* what _monitor_deployment returned
    dtiResult,      \* what deploy_to_inactive returned
    flipResult,     \* what flip_traffic returned
    result,         \* what the command returned
    report,         \* the outcome deploy_and_flip printed at its end
    log,            \* prompts and external actions of this invocation, in order
    ext,            \* how the external calls of this invocation ended
    resOutcome,     \* get_active_environment called alone: the terraform outcome
    resAws,         \*   the outcome of its describe calls
    resValue,       \*   what it returned
    resWarned,      \*   whether it printed the state-lock warning
    resLooked,      \*   whether it looked the group capacities up
    wfi,            \* ECRClient.wait_for_image: its locals, the clock, what it returned
    ges,            \* AWSClient.get_environment_status: its locals, the calls it made
    wf,             \* deploy-when-ready / rollback: the command's locals and exit
    store,          \* the deployment history object in S3, newest first
    rec,            \* DeployState used alone: calls made, what the queries returned
    dns,            \* dns_updater.handler: the event, its locals, the calls it made
    cw,             \* record_deploy calls of concurrent workflows, and how many completed
    dash            \* InteractiveDashboard.run_action("scale_down"): its locals, its command

vars == <<tfColor, asg, op, pc, skip_confirm, target_arg, answer, daf, dti, flip, cmd,
          wait_seconds, remaining, monEnv, elapsed, status, nSamples, nSleeps, nReady,
          monResult, dtiResult, flipResult, result, report, log, ext,
          resOutcome, resAws, resValue, resWarned, resLooked, wfi, ges, wf, store, rec,
          dns, cw, dash>>

worldVars == <<tfColor, asg>>
resolveVars == <<resOutcome, resAws, resValue, resWarned, resLooked>>
componentVars == <<wfi, ges, wf, store, rec, dns, cw, dash>>
monitorVars == <<monEnv, elapsed, status, nSamples, nSleeps, nReady, monResult>>
frameVars == <<skip_confirm, target_arg, answer, daf, dti, flip, cmd, wait_seconds,
               remaining, dtiResult, flipResult>>

\* ------------------------------------------------- get_active_environment
\* cli.py:66-67: a missing group counts as capacity 0.
asg_capacity(info) == IF info.found THEN info.DesiredCapacity ELSE 0

heuristic_swapped(blue_capacity, green_capacity) ==
    IF blue_capacity > 0 /\ green_capacity = 0 THEN "green"
    ELSE IF green_capacity > 0 /\ blue_capacity = 0 THEN "blue"
    ELSE "unknown"

\* cli.py:69-74.
heuristic(blue_capacity, green_capacity) ==
    IF blue_capacity > 0 /\ green_capacity = 0 THEN "blue"
    ELSE IF green_capacity > 0 /\ blue_capacity = 0 THEN "green"
    ELSE "unknown"

\* A resolution that does not trust the declared colour.
get_active_environment_untrusted(tf, aws, declared, blue_info, green_info) ==
    IF tf = "timeout" THEN NoneVal
    ELSE IF aws = "error" THEN Raised
    ELSE heuristic(asg_capacity(blue_info), asg_capacity(green_info))

\* cli.py:45-74.  tf is the outcome of the terraform query, aws the outcome of
\* the two describe calls of the fallback.  The TimeoutExpired handler prints
\* its warning and ends; the fallback lives in the other handler, so after a
\* timeout the function runs off its end and returns None.
get_active_environment(tf, aws, declared, blue_info, green_info) ==
    IF tf = "ok" THEN declared
    ELSE IF tf = "timeout" THEN NoneVal
    ELSE IF aws = "error" THEN Raised
    ELSE heuristic(asg_capacity(blue_info), asg_capacity(green_info))

\* cli.py:61-64: the capacities are read in the handler of the other exceptions.
capacity_lookup(tf) == tf \in {"exit_nonzero", "unparsable"}

\* cli.py:57-59.
tf_warning(tf) == tf = "timeout"

\* The resolution a caller gets in the current world.
Resolve(tf, aws) == get_active_environment(tf, aws, tfColor, asg["blue"], asg["green"])

NoFrame == [active_env |-> NotReturned, target_env |-> NotReturned]
NoCmd == [target |-> NotReturned, desired |-> 0, min |-> 0, max |-> 0]
NoExt == [capacity |-> NotReturned, trigger |-> NotReturned, beat |-> NotReturned,
          switch |-> NotReturned, operator |-> NotReturned]
\* ecr_client.py:114-117: wait_for_image not called.
NoWfi == [pc |-> "idle", timeout |-> 0, now |-> 0, attempt |-> 0, elapsed |-> 0,
          found |-> FALSE, delay |-> 0, jitter |-> 0, remaining |-> 0,
          actual_delay |-> 0, checks |-> 0, slept |-> 0, delays |-> <<>>,
          result |-> NotReturned]
NoStatus == [exists |-> FALSE, desired_capacity |-> 0, instances |-> 0,
             health |-> <<>>]

\* aws_client.py:71-73: get_environment_status not called.
NoGes == [pc |-> "idle", asg_out |-> NotReturned, asg_info |-> NoAsg, instance_ids |-> 0,
          instances |-> <<>>, health |-> <<>>, price_outs |-> <<>>, costs |-> <<>>,
          lookups |-> <<>>, returned |-> NotReturned, status |-> NoStatus]

\* cli.py:646-647, 805-806: neither history command is running.
NoWf == [pc |-> "idle", cmd |-> NotReturned, tag |-> NoneVal, service |-> NotReturned,
         to |-> NoneVal, yes |-> FALSE, todo |-> <<>>, ready |-> <<>>, all_ready |-> TRUE,
         make |-> NotReturned,
         records |-> 0, exit |-> NotReturned]

\* deploy_state.py:17-19: a DeployState that has not been called yet.
NoRec == [calls |-> 0, outcome |-> NotReturned, current |-> NotReturned,
          previous |-> NotReturned]

\* dns_updater.py:14: the handler has not been invoked.
NoDns == [pc |-> "idle", instance_id |-> FALSE, hook |-> FALSE, token |-> FALSE,
          attempt |-> 0, public_ip |-> FALSE, changes |-> FALSE, updated |-> FALSE,
          api_calls |-> 0, continued |-> FALSE, returned |-> NotReturned]

\* deploy_state.py:54: no record_deploy call is under way.
Writers == {"w1", "w2"}
NoWriter == [pc |-> "idle", tag |-> NoneVal, state |-> <<>>]
NoWriters == [w |-> [x \in Writers |-> NoWriter], completed |-> 0]

\* interactive.py:362-364: no dashboard action is running.
NoDash == [pc |-> "idle", active_env |-> NotReturned, inactive_env |-> NotReturned,
           active_capacity |-> 0, confirmed |-> FALSE, cmd |-> NotReturned,
           returned |-> NotReturned]

commandVars == <<worldVars, op, pc, frameVars, monitorVars, result, report, log, ext,
                 resolveVars>>

Init ==
    /\ tfColor \in Envs
    /\ asg \in [Envs -> AsgInfos]
    /\ op = "none"
    /\ pc = "idle"
    /\ skip_confirm = FALSE
    /\ target_arg = NoneVal
    /\ answer = NotReturned
    /\ daf = NoFrame
    /\ dti = NoFrame
    /\ flip = NoFrame
    /\ cmd = NoCmd
    /\ wait_seconds = 0
    /\ remaining = 0
    /\ monEnv = NotReturned
    /\ elapsed = 0
    /\ status = NoStatus
    /\ nSamples = 0
    /\ nSleeps = 0
    /\ nReady = 0
    /\ monResult = NotReturned
    /\ dtiResult = NotReturned
    /\ flipResult = NotReturned
    /\ result = NotReturned
    /\ report = NotReturned
    /\ log = <<>>
    /\ ext = NoExt
    /\ resOutcome = NotReturned
    /\ resAws = NotReturned
    /\ resValue = NotReturned
    /\ resWarned = FALSE
    /\ resLooked = FALSE
    /\ wfi = NoWfi
    /\ ges = NoGes
    /\ wf = NoWf
    /\ store = <<>>
    /\ rec = NoRec
    /\ dns = NoDns
    /\ cw = NoWriters
    /\ dash = NoDash

\* ------------------------------------------------- get_environment_status
Rank(s) ==
    CASE s = "healthy" -> 1 [] s = "unused" -> 2 [] s = "initial" -> 3
      [] s = "unhealthy" -> 4 [] OTHER -> 5

\* The health entries of one target group.  The code only counts the entries
\* of each state, so one ordering of every multiset is enough.
HealthSeqs ==
    UNION {{h \in [1..n -> HealthStates] : \A i \in 1..(n - 1) : Rank(h[i]) <= Rank(h[i + 1])} :
             n \in 0..MaxTargets}

\* aws_client.py:71-135, without the cost and uptime figures.  A missing group
\* gives exists False, no instances, capacity 0 and an empty health mapping.
get_environment_status(asg_info, instances, health) ==
    IF ~asg_info.found
    THEN [exists |-> FALSE, desired_capacity |-> 0, instances |-> 0,
          health |-> <<>>]
    ELSE [exists |-> TRUE, desired_capacity |-> asg_info.DesiredCapacity,
          instances |-> instances, health |-> health]

\* Every sample within the bounds.
AllSamples ==
    {get_environment_status(info, n, h) :
        info \in AsgInfos, n \in 0..MaxInst, h \in [TargetGroups -> HealthSeqs]}

\* The samples of environment env in the current world: the group is the one
\* the world holds, every target group reports the same single entry or none.
WorldSamples(env) ==
    {get_environment_status(asg[env], n, [g \in TargetGroups |-> h]) :
        n \in 0..MaxInst, h \in {<<>>} \cup {<<s>> : s \in HealthStates}}

\* ---------------------------------------------------- _monitor_deployment
count(tg_health, s) == Cardinality({i \in DOMAIN tg_health : tg_health[i] = s})

\* A group counted settled as soon as no entry is initial or unhealthy.
group_settled_mixed(tg_health) ==
    IF tg_health = <<>> THEN FALSE
    ELSE count(tg_health, "healthy") + count(tg_health, "unused") = Len(tg_health)

\* cli.py:391-432: what one target group does to all_healthy.
group_settled(tg_health) ==
    IF tg_health = <<>> THEN FALSE
    ELSE IF count(tg_health, "healthy") = Len(tg_health) THEN TRUE
    ELSE IF count(tg_health, "unused") = Len(tg_health) THEN TRUE
    ELSE IF count(tg_health, "initial") > 0 THEN FALSE
    ELSE IF count(tg_health, "unhealthy") > 0 THEN FALSE
    ELSE FALSE

\* cli.py:388-390.
all_healthy(health) == \A g \in DOMAIN health : group_settled(health[g])

\* A monitor without the guard of cli.py:373.
monitor_ready_unguarded(st) ==
    all_healthy(st.health) /\ st.instances >= st.desired_capacity

\* cli.py:373-435: whether this sample makes the monitor return True.
monitor_ready(st) ==
    IF ~st.exists \/ st.desired_capacity = 0 THEN FALSE
    ELSE all_healthy(st.health) /\ st.instances >= st.desired_capacity

loop_continues_inclusive(e) == e <= max_wait_time
\* cli.py:366.
loop_continues(e) == e < max_wait_time

\* ------------------------------------------------------ returning a value
\* cli.py:510-512: deploy_and_flip's message when deploy_to_inactive returned v.
deploy_report(v) == IF v = RFalse THEN "deployment_failed" ELSE NotReturned

\* A deploy_and_flip that reports a failed flip as a failed deployment.
flip_report_generic(v) ==
    IF v = RTrue THEN "complete"
    ELSE IF v = RFalse THEN "deployment_failed" ELSE NotReturned
\* cli.py:528-536: deploy_and_flip's message when flip_traffic returned v.
flip_report(v) ==
    IF v = RTrue THEN "complete"
    ELSE IF v = RFalse THEN "deployed_not_flipped" ELSE NotReturned

\* A flip_traffic that runs the switch action again when it failed.
FlipReturnRetry(v) ==
    /\ flipResult' = v
    /\ result' = v
    /\ report' = (IF op = "deploy_and_flip" THEN flip_report(v) ELSE report)
    /\ pc' = IF v = RFalse THEN "flip_run" ELSE "done"

\* flip_traffic returns v; deploy_and_flip returns what flip_traffic returned
\* (cli.py:526-538).
FlipReturn(v) ==
    /\ flipResult' = v
    /\ result' = v
    /\ report' = (IF op = "deploy_and_flip" THEN flip_report(v) ELSE report)
    /\ pc' = "done"

\* A deploy_and_flip that goes on to the flip whatever deploy_to_inactive returned.
DtiReturnAlways(v) ==
    /\ dtiResult' = v
    /\ IF op = "deploy_and_flip"
       THEN pc' = "daf_wait" /\ result' = result /\ report' = report
       ELSE /\ pc' = "done" /\ result' = v
            /\ report' = (IF op = "deploy_and_flip" THEN deploy_report(v) ELSE report)

\* deploy_to_inactive returns v (an exception leaves it when v = Raised).
\* deploy_and_flip goes on only when it returned True (cli.py:508-512).
DtiReturn(v) ==
    /\ dtiResult' = v
    /\ IF op = "deploy_and_flip" /\ v = RTrue
       THEN pc' = "daf_wait" /\ result' = result /\ report' = report
       ELSE /\ pc' = "done" /\ result' = v
            /\ report' = (IF op = "deploy_and_flip" THEN deploy_report(v) ELSE report)

\* A deploy_to_inactive that returns False whatever the wait returned.
MonReturnFalse(v) ==
    /\ monResult' = v
    /\ IF op = "monitor"
       THEN pc' = "done" /\ result' = v /\ report' = report /\ dtiResult' = dtiResult
       ELSE DtiReturn(RFalse)

\* A deploy_to_inactive that lets an interrupt or an exception of the wait
\* leave it.
MonReturnPropagate(v) ==
    /\ monResult' = v
    /\ IF op = "monitor"
       THEN pc' = "done" /\ result' = v /\ report' = report /\ dtiResult' = dtiResult
       ELSE DtiReturn(IF v \in {RTrue, RFalse} THEN v ELSE Raised)

\* _monitor_deployment returns v.  Called from deploy_to_inactive (cli.py:323)
\* its value is returned, and an exception or an interrupt leaving it is caught
\* there and turned into False (cli.py:325-330).
MonReturn(v) ==
    /\ monResult' = v
    /\ IF op = "monitor"
       THEN pc' = "done" /\ result' = v /\ report' = report /\ dtiResult' = dtiResult
       ELSE DtiReturn(IF v = RTrue THEN RTrue ELSE RFalse)

\* ---------------------------------------------------------------- helpers
\* cli.py:259, 456, 498.
complement_same(active_env) == active_env
complement(active_env) == IF active_env = "blue" THEN "green" ELSE "blue"

\* The group of the other environment.
asg_of_target(active_env) == IF active_env = "blue" THEN "green" ELSE "blue"
\* cli.py:274, 79: the group read for the active environment.
asg_of(active_env) == IF active_env = "blue" THEN "blue" ELSE "green"

\* cli.py:255, 494.
guard_never(active_env) == FALSE
is_unknown(active_env) == active_env = "unknown"

\* cli.py:261, 458, 503: active_env.upper() fails on None.
upper_fails(active_env) == active_env = NoneVal

prompts_never(skip) == FALSE
\* cli.py:265, 461: the prompt is shown only without skip_confirm.
prompts(skip) == ~skip
declined_never(ans) == FALSE
declined(ans) == ans = "no"

\* cli.py:277-291: the capacity parameters of the deploy command.
deploy_cmd(target_env, active_asg_info) ==
    IF active_asg_info.found
    THEN [target |-> target_env, desired |-> active_asg_info.DesiredCapacity,
          min |-> active_asg_info.MinSize, max |-> active_asg_info.MaxSize]
    ELSE [target |-> target_env, desired |-> 1, min |-> 1, max |-> 2]

\* cli.py:288: make deploy:new-<target_env>.
make_deploy(target_env) ==
    IF target_env = "blue" THEN "make deploy:new-blue" ELSE "make deploy:new-green"

make_flip_forward(target_env) == "make deploy:flip"
\* cli.py:467-474.
make_flip(target_env) ==
    IF target_env = "green" THEN "make deploy:flip" ELSE "make deploy:rollback"

\* cli.py:81-84: the capacity of the group found for the active environment.
get_active_capacity(info) == IF info.found THEN info.DesiredCapacity ELSE 1

\* cli.py:78-81: get_active_capacity raises when its resolution or its
\* describe call does.
capacity_raises(active_env, aws) == active_env = Raised \/ aws = "error"

\* ------------------------------------------------------------- commands
\* A command starts with the locals of the previous one gone.
StartDeploy ==
    /\ pc = "idle"
    /\ op' = "deploy"
    /\ pc' = "dti_resolve"
    /\ skip_confirm' \in BOOLEAN
    /\ UNCHANGED <<worldVars, target_arg, answer, daf, dti, flip, cmd, wait_seconds,
                   remaining, dtiResult, flipResult, monitorVars, result, report, log,
                   resolveVars, componentVars, ext>>

StartFlip ==
    /\ pc = "idle"
    /\ op' = "flip"
    /\ pc' = "flip_resolve"
    /\ skip_confirm' \in BOOLEAN
    /\ target_arg' \in Envs \cup {NoneVal}
    /\ UNCHANGED <<worldVars, answer, daf, dti, flip, cmd, wait_seconds, remaining,
                   dtiResult, flipResult, monitorVars, result, report, log, resolveVars,
                   componentVars, ext>>

StartDeployAndFlip ==
    /\ pc = "idle"
    /\ op' = "deploy_and_flip"
    /\ pc' = "daf_resolve"
    /\ wait_seconds' \in 0..MaxWait
    /\ remaining' = wait_seconds'
    /\ UNCHANGED <<worldVars, skip_confirm, target_arg, answer, daf, dti, flip, cmd,
                   dtiResult, flipResult, monitorVars, result, report, log, resolveVars,
                   componentVars, ext>>

\* cli.py:492-508: resolve, refuse unknown, pick the target, print the banner,
\* call deploy_to_inactive(skip_confirm=True).
daf_Resolve ==
    /\ pc = "daf_resolve"
    /\ \E tf \in TfOutcomes, aws \in AwsOutcomes :
          LET active_env == Resolve(tf, aws) IN
          IF active_env = Raised
          THEN /\ result' = Raised /\ pc' = "done" /\ report' = report
               /\ UNCHANGED <<daf, skip_confirm>>
          ELSE IF is_unknown(active_env)
          THEN /\ daf' = [active_env |-> active_env, target_env |-> NotReturned]
               /\ result' = RFalse /\ pc' = "done" /\ report' = report
               /\ UNCHANGED skip_confirm
          ELSE /\ daf' = [active_env |-> active_env, target_env |-> complement(active_env)]
               /\ IF upper_fails(active_env)
                  THEN result' = Raised /\ pc' = "done" /\ report' = report /\ UNCHANGED skip_confirm
                  ELSE result' = result /\ report' = report /\ pc' = "dti_resolve" /\ skip_confirm' = TRUE
    /\ UNCHANGED <<worldVars, op, target_arg, answer, dti, flip, cmd, wait_seconds,
                   remaining, dtiResult, flipResult, monitorVars, log, resolveVars,
                   componentVars, ext>>

\* cli.py:253-262: resolve, refuse unknown, pick the target, print both.
dti_Resolve ==
    /\ pc = "dti_resolve"
    /\ \E tf \in TfOutcomes, aws \in AwsOutcomes :
          LET active_env == Resolve(tf, aws) IN
          IF active_env = Raised
          THEN DtiReturn(Raised) /\ UNCHANGED dti
          ELSE IF is_unknown(active_env)
          THEN /\ dti' = [active_env |-> active_env, target_env |-> NotReturned]
               /\ DtiReturn(RFalse)
          ELSE /\ dti' = [active_env |-> active_env, target_env |-> complement(active_env)]
               /\ IF upper_fails(active_env)
                  THEN DtiReturn(Raised)
                  ELSE dtiResult' = dtiResult /\ result' = result /\ report' = report /\ pc' = "dti_confirm"
    /\ UNCHANGED <<worldVars, op, skip_confirm, target_arg, answer, daf, flip, cmd,
                   wait_seconds, remaining, flipResult, monitorVars, log, resolveVars,
                   componentVars, ext>>

\* cli.py:264-270.
dti_Confirm ==
    /\ pc = "dti_confirm"
    /\ IF prompts(skip_confirm)
       THEN \E ans \in {"yes", "no"} :
               /\ answer' = ans
               /\ log' = Append(log, "confirm")
               /\ IF declined(ans)
                  THEN DtiReturn(RFalse)
                  ELSE dtiResult' = dtiResult /\ result' = result /\ report' = report /\ pc' = "dti_capacity"
       ELSE /\ pc' = "dti_capacity"
            /\ UNCHANGED <<answer, log, dtiResult, result, report>>
    /\ UNCHANGED <<worldVars, op, skip_confirm, target_arg, daf, dti, flip, cmd,
                   wait_seconds, remaining, flipResult, monitorVars, resolveVars,
                   componentVars, ext>>

\* A deploy_to_inactive that lets a failing capacity read propagate.
dti_CapacityPropagates ==
    /\ pc = "dti_capacity"
    /\ log' = Append(log, "read capacity")
    /\ \E aws \in AwsOutcomes :
          /\ ext' = [ext EXCEPT !.capacity = aws]
          /\ IF aws = "error"
             THEN DtiReturn(Raised) /\ UNCHANGED cmd
             ELSE /\ cmd' = deploy_cmd(dti.target_env, asg[asg_of(dti.active_env)])
                  /\ dtiResult' = dtiResult /\ result' = result /\ report' = report /\ pc' = "dti_trigger"
    /\ UNCHANGED <<worldVars, op, skip_confirm, target_arg, answer, daf, dti, flip,
                   wait_seconds, remaining, flipResult, monitorVars, resolveVars,
                   componentVars>>

\* cli.py:272-293: read the active group and build the command; an exception
\* is caught at cli.py:328.
dti_Capacity ==
    /\ pc = "dti_capacity"
    /\ log' = Append(log, "read capacity")
    /\ \E aws \in AwsOutcomes :
          /\ ext' = [ext EXCEPT !.capacity = aws]
          /\ IF aws = "error"
             THEN DtiReturn(RFalse) /\ UNCHANGED cmd
             ELSE /\ cmd' = deploy_cmd(dti.target_env, asg[asg_of(dti.active_env)])
                  /\ dtiResult' = dtiResult /\ result' = result /\ report' = report /\ pc' = "dti_trigger"
    /\ UNCHANGED <<worldVars, op, skip_confirm, target_arg, answer, daf, dti, flip,
                   wait_seconds, remaining, flipResult, monitorVars, resolveVars,
                   componentVars>>

\* cli.py:295-303, 325-330: Popen failing, or the user interrupting the
\* streaming, leaves through an exception handler.
trigger_raised(out) == out \in {"popen_error", "interrupt"}

\* A trigger whose exit code is not looked at.
nonzero_ignored(out) == FALSE
\* cli.py:311: process.returncode != 0.
nonzero(out) == out = "exit_nonzero"

\* cli.py:295-315: run the deploy command and stream its output.  What a
\* successful run leaves of the target group is the external action's choice.
dti_Trigger ==
    /\ pc = "dti_trigger"
    /\ \E out \in {"exit_zero", "exit_nonzero", "popen_error", "interrupt"} :
          /\ ext' = [ext EXCEPT !.trigger = out]
          /\ log' = IF out = "popen_error" THEN log
                    ELSE Append(log, make_deploy(cmd.target))
          /\ IF trigger_raised(out) \/ nonzero(out)
             THEN DtiReturn(RFalse) /\ UNCHANGED asg
             ELSE /\ \E info \in AsgInfos : asg' = [asg EXCEPT ![cmd.target] = info]
                  /\ dtiResult' = dtiResult /\ result' = result /\ report' = report /\ pc' = "dti_restart"
    /\ UNCHANGED <<tfColor, op, skip_confirm, target_arg, answer, daf, dti, flip, cmd,
                   wait_seconds, remaining, flipResult, monitorVars, resolveVars,
                   componentVars>>

\* cli.py:332-352: what _restart_celery_beat does to the log: the instance is
\* terminated (or the call tried) only when the group has one.
BeatOutcomes == {"describe_error", "no_group", "no_instance", "terminated", "terminate_error"}
restart_log(beat) ==
    IF beat \in {"terminated", "terminate_error"}
    THEN <<"restart celery-beat", "terminate celery-beat">>
    ELSE <<"restart celery-beat">>

\* A restart whose failure ends the deployment.
dti_RestartFatal ==
    /\ pc = "dti_restart"
    /\ \E beat \in BeatOutcomes :
          /\ ext' = [ext EXCEPT !.beat = beat]
          /\ IF beat \in {"describe_error", "terminate_error"}
             THEN /\ log' = log \o restart_log(beat)
                  /\ DtiReturn(RFalse)
                  /\ UNCHANGED <<monEnv, elapsed>>
             ELSE /\ log' = log \o restart_log(beat) \o <<"monitor">>
                  /\ monEnv' = dti.target_env
                  /\ elapsed' = 0
                  /\ pc' = "mon_loop"
                  /\ UNCHANGED <<dtiResult, result, report>>
    /\ UNCHANGED <<worldVars, op, skip_confirm, target_arg, answer, daf, dti, flip, cmd,
                   wait_seconds, remaining, flipResult, status, nSamples, nSleeps,
                   nReady, monResult, resolveVars, componentVars>>

\* cli.py:317-323 with _restart_celery_beat (cli.py:332-352), then the call of
\* _monitor_deployment(target_env) and its first lines (cli.py:356-363).
dti_Restart ==
    /\ pc = "dti_restart"
    /\ \E beat \in BeatOutcomes :
          /\ ext' = [ext EXCEPT !.beat = beat]
          /\ log' = log \o restart_log(beat) \o <<"monitor">>
    /\ monEnv' = dti.target_env
    /\ elapsed' = 0
    /\ pc' = "mon_loop"
    /\ UNCHANGED <<worldVars, op, frameVars, status, nSamples, nSleeps, nReady,
                   monResult, result, report, resolveVars, componentVars>>

\* _monitor_deployment called on its own (as its tests do).
StartMonitor ==
    /\ pc = "idle"
    /\ op' = "monitor"
    /\ monEnv' \in Envs
    /\ elapsed' = 0
    /\ pc' = "mon_loop"
    /\ UNCHANGED <<worldVars, frameVars, status, nSamples, nSleeps, nReady, monResult,
                   result, report, log, resolveVars, componentVars, ext>>

\* cli.py:366-367 and 447-448: the loop test, then one sample drawn from S.
MonitorSample(S) ==
    /\ pc = "mon_loop"
    /\ IF loop_continues(elapsed)
       THEN \/ /\ \E st \in S :
                     /\ status' = st
                     /\ nReady' = nReady + (IF monitor_ready(st) THEN 1 ELSE 0)
               /\ nSamples' = nSamples + 1
               /\ pc' = "mon_eval"
               /\ UNCHANGED <<monResult, dtiResult, result, report>>
            \/ /\ MonReturn(Raised)
               /\ nSamples' = nSamples + 1
               /\ UNCHANGED <<status, nReady>>
       ELSE MonReturn(RFalse) /\ UNCHANGED <<status, nSamples, nReady>>
    /\ UNCHANGED <<worldVars, op, skip_confirm, target_arg, answer, daf, dti, flip, cmd,
                   wait_seconds, remaining, flipResult, monEnv, elapsed, nSleeps, log,
                   resolveVars, componentVars, ext>>

\* A monitor that sleeps check_interval before it reports a ready sample.
MonitorEvaluateLate ==
    /\ pc = "mon_eval"
    /\ IF monitor_ready(status)
       THEN /\ MonReturn(RTrue)
            /\ nSleeps' = nSleeps + 1
            /\ elapsed' = elapsed + check_interval
            /\ UNCHANGED status
       ELSE /\ nSleeps' = nSleeps + 1
            /\ elapsed' = elapsed + check_interval
            /\ status' = NoStatus
            /\ pc' = "mon_loop"
            /\ UNCHANGED <<monResult, dtiResult, result, report>>
    /\ UNCHANGED <<worldVars, op, skip_confirm, target_arg, answer, daf, dti, flip, cmd,
                   wait_seconds, remaining, flipResult, monEnv, nSamples, nReady, log,
                   resolveVars, componentVars, ext>>

\* cli.py:373-445: a ready sample returns True at once; otherwise the sample is
\* shown and dropped, and the loop sleeps check_interval (the user can
\* interrupt the sleep).
MonitorEvaluate ==
    /\ pc = "mon_eval"
    /\ IF monitor_ready(status)
       THEN /\ MonReturn(RTrue)
            /\ UNCHANGED <<status, nSleeps, elapsed>>
       ELSE \/ /\ nSleeps' = nSleeps + 1
               /\ elapsed' = elapsed + check_interval
               /\ status' = NoStatus
               /\ pc' = "mon_loop"
               /\ UNCHANGED <<monResult, dtiResult, result, report>>
            \/ /\ MonReturn("KeyboardInterrupt")
               /\ nSleeps' = nSleeps + 1
               /\ UNCHANGED <<status, elapsed>>
    /\ UNCHANGED <<worldVars, op, skip_confirm, target_arg, answer, daf, dti, flip, cmd,
                   wait_seconds, remaining, flipResult, monEnv, nSamples, nReady, log,
                   resolveVars, componentVars, ext>>

\* A deploy_and_flip that flips without waiting.
daf_WaitNone ==
    /\ pc = "daf_wait"
    /\ pc' = "flip_resolve"
    /\ target_arg' = daf.target_env
    /\ UNCHANGED <<worldVars, op, skip_confirm, answer, daf, dti, flip, cmd,
                   wait_seconds, remaining, log, dtiResult, flipResult, monitorVars,
                   result, report, resolveVars, componentVars, ext>>

\* cli.py:514-526: the stabilization period, one second a step, then the call
\* flip_traffic(target_env=target_env, skip_confirm=True).
daf_Wait ==
    /\ pc = "daf_wait"
    /\ IF remaining > 0
       THEN /\ remaining' = remaining - 1
            /\ log' = Append(log, "sleep")
            /\ UNCHANGED <<pc, target_arg>>
       ELSE /\ pc' = "flip_resolve"
            /\ target_arg' = daf.target_env
            /\ UNCHANGED <<remaining, log>>
    /\ UNCHANGED <<worldVars, op, skip_confirm, answer, daf, dti, flip, cmd,
                   wait_seconds, dtiResult, flipResult, monitorVars, result, report,
                   resolveVars, componentVars, ext>>

\* cli.py:452-459: resolve, read the active capacity (a second resolution and
\* a describe call, its value unused), pick the target, print both.
flip_Resolve ==
    /\ pc = "flip_resolve"
    /\ \E tf \in TfOutcomes, aws \in AwsOutcomes, tf2 \in TfOutcomes,
          aws2 \in AwsOutcomes, aws3 \in AwsOutcomes :
          LET active_env == Resolve(tf, aws)
              active2 == Resolve(tf2, aws2)
              target_env == IF target_arg = NoneVal THEN complement(active_env)
                            ELSE target_arg
          IN  IF active_env = Raised \/ capacity_raises(active2, aws3)
              THEN FlipReturn(Raised) /\ UNCHANGED flip
              ELSE /\ flip' = [active_env |-> active_env, target_env |-> target_env]
                   /\ IF upper_fails(active_env)
                      THEN FlipReturn(Raised)
                      ELSE flipResult' = flipResult /\ result' = result /\ report' = report /\ pc' = "flip_confirm"
    /\ UNCHANGED <<worldVars, op, skip_confirm, target_arg, answer, daf, dti, cmd,
                   wait_seconds, remaining, dtiResult, monitorVars, log, resolveVars,
                   componentVars, ext>>

\* cli.py:461-463.
flip_Confirm ==
    /\ pc = "flip_confirm"
    /\ IF prompts(skip_confirm)
       THEN \E ans \in {"yes", "no"} :
               /\ answer' = ans
               /\ log' = Append(log, "confirm")
               /\ IF declined(ans)
                  THEN FlipReturn(RFalse)
                  ELSE flipResult' = flipResult /\ result' = result /\ report' = report /\ pc' = "flip_run"
       ELSE /\ pc' = "flip_run"
            /\ UNCHANGED <<answer, log, flipResult, result, report>>
    /\ UNCHANGED <<worldVars, op, skip_confirm, target_arg, daf, dti, flip, cmd,
                   wait_seconds, remaining, dtiResult, monitorVars, resolveVars,
                   componentVars, ext>>

\* cli.py:465-488: run the switch action chosen by the target.  A successful
\* make deploy:flip leaves green declared active, make deploy:rollback blue.
flip_Run ==
    /\ pc = "flip_run"
    /\ log' = Append(log, make_flip(flip.target_env))
    /\ \E out \in {"ok", "called_process_error"} :
          /\ ext' = [ext EXCEPT !.switch = out]
          /\ IF out = "ok"
             THEN /\ tfColor' = IF make_flip(flip.target_env) = "make deploy:flip"
                                THEN "green" ELSE "blue"
                  /\ FlipReturn(RTrue)
             ELSE FlipReturn(RFalse) /\ UNCHANGED tfColor
    /\ UNCHANGED <<asg, op, skip_confirm, target_arg, answer, daf, dti, flip, cmd,
                   wait_seconds, remaining, dtiResult, monitorVars, resolveVars,
                   componentVars>>

\* The command has returned; the next one starts from fresh locals.
Finish ==
    /\ pc = "done"
    /\ op' = "none"
    /\ pc' = "idle"
    /\ skip_confirm' = FALSE
    /\ target_arg' = NoneVal
    /\ answer' = NotReturned
    /\ daf' = NoFrame
    /\ dti' = NoFrame
    /\ flip' = NoFrame
    /\ cmd' = NoCmd
    /\ wait_seconds' = 0
    /\ remaining' = 0
    /\ monEnv' = NotReturned
    /\ elapsed' = 0
    /\ status' = NoStatus
    /\ nSamples' = 0
    /\ nSleeps' = 0
    /\ nReady' = 0
    /\ monResult' = NotReturned
    /\ dtiResult' = NotReturned
    /\ flipResult' = NotReturned
    /\ result' = NotReturned
    /\ report' = NotReturned
    /\ log' = <<>>
    /\ ext' = NoExt
    /\ UNCHANGED <<worldVars, resolveVars, componentVars>>

\* get_active_environment called on its own (as show_status and the tests do).
ResolveCall ==
    /\ pc = "idle"
    /\ \E tf \in TfOutcomes, aws \in AwsOutcomes :
          /\ resOutcome' = tf
          /\ resAws' = aws
          /\ resValue' = Resolve(tf, aws)
          /\ resWarned' = tf_warning(tf)
          /\ resLooked' = capacity_lookup(tf)
    /\ UNCHANGED <<worldVars, op, pc, frameVars, monitorVars, result, report, log, ext,
                   componentVars>>

NextResolve == ResolveCall

SpecResolve == Init /\ [][NextResolve]_vars

\* The commands, one at a time, the monitor sampling the world.
dti_Monitor == MonitorSample(WorldSamples(monEnv))

Next ==
    \/ StartDeploy
    \/ StartFlip
    \/ StartDeployAndFlip
    \/ daf_Resolve
    \/ dti_Resolve
    \/ dti_Confirm
    \/ dti_Capacity
    \/ dti_Trigger
    \/ dti_Restart
    \/ dti_Monitor
    \/ MonitorEvaluate
    \/ daf_Wait
    \/ flip_Resolve
    \/ flip_Confirm
    \/ flip_Run
    \/ Finish

Spec == Init /\ [][Next]_vars

\* ------------------------------------------- a second operator at work
\* Nothing in the tool excludes another operator's flip while a command runs
\* (every command starts from its own fresh resolutions and takes no lock).
\* Here another operator's flip_traffic completes once, after deploy_and_flip
\* has resolved the active environment (cli.py:492) and before
\* deploy_to_inactive resolves it again (cli.py:253): the declared colour
\* changes under the running command.
OtherOperatorFlip ==
    /\ op = "deploy_and_flip"
    /\ pc = "dti_resolve"
    /\ ext.operator = NotReturned
    /\ tfColor' = complement(tfColor)
    /\ ext' = [ext EXCEPT !.operator = "flipped"]
    /\ UNCHANGED <<asg, op, pc, frameVars, monitorVars, result, report, log, resolveVars,
                   componentVars>>

NextOperators ==
    \/ StartDeployAndFlip
    \/ daf_Resolve
    \/ OtherOperatorFlip
    \/ dti_Resolve
    \/ dti_Confirm
    \/ dti_Capacity
    \/ dti_Trigger
    \/ dti_Restart
    \/ dti_Monitor
    \/ MonitorEvaluate
    \/ daf_Wait
    \/ flip_Resolve
    \/ flip_Confirm
    \/ flip_Run
    \/ Finish

SpecOperators == Init /\ [][NextOperators]_vars

\* _monitor_deployment alone, its sampler free to report any sample.
InitMonitor == Init /\ tfColor = "blue" /\ asg = [e \in Envs |-> NoAsg]

AnySample == MonitorSample(AllSamples)

NextMonitor ==
    \/ StartMonitor
    \/ AnySample
    \/ MonitorEvaluate
    \/ Finish

SpecMonitor == InitMonitor /\ [][NextMonitor]_vars

\* ------------------------------------------------ ECRClient.wait_for_image
\* Clock ticks in one second: time.time() is a float, of which elapsed keeps
\* the integer part (ecr_client.py:121).
Tick == 10
base_delay == 2
max_delay == 15
\* Largest timeout wait_for_image is called with, in seconds.
MaxTimeout == 31
\* How long one existence check takes, in ticks.
CheckDurations == {0, 5}

Min(a, b) == IF a < b THEN a ELSE b

\* ecr_client.py:121: int(time.time() - start_time).
elapsed_seconds(now) == now \div Tick

\* A backoff whose delay is not capped.
backoff_uncapped(attempt) == base_delay * (2 ^ Min(attempt - 1, 3))
\* ecr_client.py:137.
backoff(attempt) == Min(base_delay * (2 ^ Min(attempt - 1, 3)), max_delay)

\* ecr_client.py:138: random.uniform(0, delay * 0.2), in ticks: nothing, a
\* tenth of the delay, a fifth of the delay.
jitters(delay) == {0, (delay * Tick) \div 10, (delay * Tick) \div 5}

\* ecr_client.py:142-144, actual_delay in ticks and remaining in
\* seconds.
capped(actual_delay, remaining_s) ==
    IF actual_delay > remaining_s * Tick THEN remaining_s * Tick ELSE actual_delay

\* A timeout test that gives up a second early.
timed_out_early(elapsed_s, timeout_s) == elapsed_s + 1 >= timeout_s
\* ecr_client.py:133.
timed_out(elapsed_s, timeout_s) == elapsed_s >= timeout_s

\* ecr_client.py:95-117: the call, start_time taken as the clock's origin.
StartWait ==
    /\ pc = "idle"
    /\ wfi.pc = "idle"
    /\ \E t \in 0..MaxTimeout : wfi' = [NoWfi EXCEPT !.pc = "check", !.timeout = t]
    /\ UNCHANGED <<commandVars, dash, cw, dns, rec, ges, wf, store>>

\* A poller that tests the timeout before it checks ("while elapsed < timeout").
wfi_CheckGuarded ==
    /\ wfi.pc = "check"
    /\ IF timed_out(elapsed_seconds(wfi.now), wfi.timeout)
       THEN wfi' = [wfi EXCEPT !.elapsed = elapsed_seconds(wfi.now),
                               !.result = RFalse, !.pc = "done"]
       ELSE \E out \in {"found", "not_found", "error"}, d \in CheckDurations :
               wfi' = [wfi EXCEPT !.attempt = @ + 1,
                                  !.elapsed = elapsed_seconds(wfi.now),
                                  !.checks = @ + 1,
                                  !.now = @ + d,
                                  !.found = (out = "found"),
                                  !.pc = IF out = "error" THEN "done" ELSE "decide",
                                  !.result = IF out = "error" THEN Raised ELSE @]
    /\ UNCHANGED <<commandVars, dash, cw, dns, rec, ges, wf, store>>

\* ecr_client.py:120-127: count the attempt, measure elapsed, check the
\* registry (image_exists re-raises every error but ImageNotFoundException).
wfi_Check ==
    /\ wfi.pc = "check"
    /\ \E out \in {"found", "not_found", "error"}, d \in CheckDurations :
          wfi' = [wfi EXCEPT !.attempt = @ + 1,
                             !.elapsed = elapsed_seconds(wfi.now),
                             !.checks = @ + 1,
                             !.now = @ + d,
                             !.found = (out = "found"),
                             !.pc = IF out = "error" THEN "done" ELSE "decide",
                             !.result = IF out = "error" THEN Raised ELSE @]
    /\ UNCHANGED <<commandVars, dash, cw, dns, rec, ges, wf, store>>

\* A poller that sleeps the backoff delay once more before it reports a find.
wfi_DecideLate ==
    /\ wfi.pc = "decide"
    /\ IF timed_out(wfi.elapsed, wfi.timeout) /\ ~wfi.found
       THEN wfi' = [wfi EXCEPT !.result = RFalse, !.pc = "done"]
       ELSE \E jitter \in jitters(backoff(wfi.attempt)) :
               LET delay == backoff(wfi.attempt)
                   remaining_s == wfi.timeout - wfi.elapsed
                   actual_delay == capped(delay * Tick + jitter, remaining_s)
               IN  wfi' = [wfi EXCEPT !.delay = delay,
                                      !.jitter = jitter,
                                      !.remaining = remaining_s,
                                      !.actual_delay = actual_delay,
                                      !.now = @ + actual_delay,
                                      !.slept = @ + actual_delay,
                                      !.delays = Append(@, delay),
                                      !.result = IF wfi.found THEN RTrue ELSE @,
                                      !.pc = IF wfi.found THEN "done" ELSE "check"]
    /\ UNCHANGED <<commandVars, dash, cw, dns, rec, ges, wf, store>>

\* ecr_client.py:129-146: return on found, return on timeout, else sleep the
\* backoff delay with its jitter, cut to the remaining budget.
wfi_Decide ==
    /\ wfi.pc = "decide"
    /\ IF wfi.found
       THEN wfi' = [wfi EXCEPT !.result = RTrue, !.pc = "done"]
       ELSE IF timed_out(wfi.elapsed, wfi.timeout)
       THEN wfi' = [wfi EXCEPT !.result = RFalse, !.pc = "done"]
       ELSE \E jitter \in jitters(backoff(wfi.attempt)) :
               LET delay == backoff(wfi.attempt)
                   remaining_s == wfi.timeout - wfi.elapsed
                   actual_delay == capped(delay * Tick + jitter, remaining_s)
               IN  wfi' = [wfi EXCEPT !.delay = delay,
                                      !.jitter = jitter,
                                      !.remaining = remaining_s,
                                      !.actual_delay = actual_delay,
                                      !.now = @ + actual_delay,
                                      !.slept = @ + actual_delay,
                                      !.delays = Append(@, delay),
                                      !.pc = "check"]
    /\ UNCHANGED <<commandVars, dash, cw, dns, rec, ges, wf, store>>

\* wait_for_image has returned; the caller goes on.
FinishWait ==
    /\ wfi.pc = "done"
    /\ wfi' = NoWfi
    /\ UNCHANGED <<commandVars, dash, cw, dns, rec, ges, wf, store>>

InitWait == Init /\ tfColor = "blue" /\ asg = [e \in Envs |-> NoAsg]

NextWait ==
    \/ StartWait
    \/ wfi_Check
    \/ wfi_Decide
    \/ FinishWait

SpecWait == InitWait /\ [][NextWait]_vars

\* The interpreter runs a call that has started to its end.
SpecWaitFair == SpecWait /\ WF_vars(wfi_Check) /\ WF_vars(wfi_Decide)

\* ------------------------------------------ AWSClient.get_environment_status
\* Hourly prices in 1/10000 of a dollar; 0.0094 is the on-demand price the
\* code assumes (aws_client.py:107).
on_demand_cost == 94
\* Spot prices the price history may hold (0.0 and the 0.0033 of the tests).
SpotPrices == {0, 33}
Lifecycles == {"spot", "on-demand"}

\* aws_client.py:44-54: get_spot_price returns the price, returns None when
\* the history is empty, or lets the error of the describe call through.
PriceOutcomes ==
    {[kind |-> "price", price |-> p] : p \in SpotPrices}
        \cup {[kind |-> "none", price |-> 0], [kind |-> "error", price |-> 0]}
spot_price_raises(out) == out.kind = "error"

\* aws_client.py:105: spot_price if spot_price else 0.0.
hourly_cost_of(out) == IF out.kind = "price" /\ out.price # 0 THEN out.price ELSE 0

\* What one target group's describe_target_health may hold.
GroupHealths == {<<>>, <<"healthy">>, <<"initial">>}

\* The call itself.
StartStatus ==
    /\ pc = "idle"
    /\ ges.pc = "idle"
    /\ ges' = [NoGes EXCEPT !.pc = "asg"]
    /\ UNCHANGED <<commandVars, dash, cw, dns, rec, wfi, wf, store>>

\* A status call that fails when the group is missing.
ges_AsgStrict ==
    /\ ges.pc = "asg"
    /\ \/ \E out \in {"error", "missing"} :
             ges' = [ges EXCEPT !.lookups = Append(@, "asg"), !.asg_out = out,
                                !.returned = Raised, !.pc = "done"]
       \/ \E info \in AsgInfos \ {NoAsg}, n \in 0..MaxInst :
             ges' = [ges EXCEPT !.lookups = Append(@, "asg"), !.asg_out = "found",
                                !.asg_info = info, !.instance_ids = n,
                                !.pc = "instances"]
    /\ UNCHANGED <<commandVars, dash, cw, dns, rec, wfi, wf, store>>

\* aws_client.py:73-80: describe the group; a describe call that fails raises,
\* a missing group returns the not-existing status at once.
ges_Asg ==
    /\ ges.pc = "asg"
    /\ \/ ges' = [ges EXCEPT !.lookups = Append(@, "asg"), !.asg_out = "error",
                             !.returned = Raised, !.pc = "done"]
       \/ ges' = [ges EXCEPT !.lookups = Append(@, "asg"), !.asg_out = "missing",
                             !.returned = "status",
                             !.status = get_environment_status(NoAsg, 0, <<>>),
                             !.pc = "done"]
       \/ \E info \in AsgInfos \ {NoAsg}, n \in 0..MaxInst :
             ges' = [ges EXCEPT !.lookups = Append(@, "asg"), !.asg_out = "found",
                                !.asg_info = info, !.instance_ids = n,
                                !.pc = "instances"]
    /\ UNCHANGED <<commandVars, dash, cw, dns, rec, wfi, wf, store>>

\* aws_client.py:83-84 and 34-42: describe the instances, unless there is none.
ges_Instances ==
    /\ ges.pc = "instances"
    /\ IF ges.instance_ids = 0
       THEN ges' = [ges EXCEPT !.pc = "health"]
       ELSE \/ ges' = [ges EXCEPT !.lookups = Append(@, "instances"),
                                  !.returned = Raised, !.pc = "done"]
            \/ \E ls \in [1..ges.instance_ids -> Lifecycles] :
                  ges' = [ges EXCEPT !.lookups = Append(@, "instances"),
                                     !.instances = ls, !.pc = "health"]
    /\ UNCHANGED <<commandVars, dash, cw, dns, rec, wfi, wf, store>>

\* aws_client.py:87-90: the health of one more target group.
ges_Health ==
    /\ ges.pc = "health"
    /\ LET g == CHOOSE x \in TargetGroups \ DOMAIN ges.health : TRUE IN
       \/ ges' = [ges EXCEPT !.lookups = Append(@, "health"),
                             !.returned = Raised, !.pc = "done"]
       \/ \E h \in GroupHealths :
             ges' = [ges EXCEPT !.lookups = Append(@, "health"),
                                !.health = (g :> h) @@ ges.health,
                                !.pc = IF DOMAIN ges.health \cup {g} = TargetGroups
                                       THEN "pricing" ELSE "health"]
    /\ UNCHANGED <<commandVars, dash, cw, dns, rec, wfi, wf, store>>

\* aws_client.py:96-122: the cost of the next instance; only a spot instance
\* has its price looked up.
ges_Price ==
    /\ ges.pc = "pricing"
    /\ Len(ges.costs) < Len(ges.instances)
    /\ IF ges.instances[Len(ges.costs) + 1] = "spot"
       THEN \E out \in PriceOutcomes :
               IF spot_price_raises(out)
               THEN ges' = [ges EXCEPT !.lookups = Append(@, "price"),
                                       !.price_outs = Append(@, out.kind),
                                       !.returned = Raised, !.pc = "done"]
               ELSE ges' = [ges EXCEPT !.lookups = Append(@, "price"),
                                       !.price_outs = Append(@, out.kind),
                                       !.costs = Append(@, hourly_cost_of(out))]
       ELSE ges' = [ges EXCEPT !.price_outs = Append(@, "not looked up"),
                               !.costs = Append(@, on_demand_cost)]
    /\ UNCHANGED <<commandVars, dash, cw, dns, rec, wfi, wf, store>>

\* aws_client.py:124-134: every instance has its cost; return the status.
ges_Return ==
    /\ ges.pc = "pricing"
    /\ Len(ges.costs) = Len(ges.instances)
    /\ ges' = [ges EXCEPT !.returned = "status",
                          !.status = get_environment_status(ges.asg_info,
                                         Len(ges.instances), ges.health),
                          !.pc = "done"]
    /\ UNCHANGED <<commandVars, dash, cw, dns, rec, wfi, wf, store>>

\* get_environment_status has returned or raised; the caller goes on.
FinishStatus ==
    /\ ges.pc = "done"
    /\ ges' = NoGes
    /\ UNCHANGED <<commandVars, dash, cw, dns, rec, wfi, wf, store>>

InitStatus == Init /\ tfColor = "blue" /\ asg = [e \in Envs |-> NoAsg]

NextStatus ==
    \/ StartStatus
    \/ ges_Asg
    \/ ges_Instances
    \/ ges_Health
    \/ ges_Price
    \/ ges_Return
    \/ FinishStatus

SpecStatus == InitStatus /\ [][NextStatus]_vars

\* ------------------------------------- deploy-when-ready, rollback, history
\* The history object holds one entry per recorded deployment, newest first.
\* Of an entry the tag and the service are kept (timestamp and user are not
\* read by the commands).
MAX_HISTORY == 50
MaxHistoryLen == 3
Shas == {"a", "b"}
main_tag(git_sha) == "main-" \o git_sha
Tags == {main_tag(sha) : sha \in Shas}
Services == {"api", "frontend", "all"}

\* deploy_state.py:75-86
get_history(state, limit) == SubSeq(state, 1, Min(limit, Len(state)))

\* deploy_state.py:88-93
get_current_tag(state) ==
    LET history == get_history(state, 1)
    IN  IF Len(history) >= 1 THEN history[1].tag ELSE NoneVal

\* Not the code: the most recent entry is taken for the previous one.
get_previous_tag_current(state) ==
    LET history == get_history(state, 2)
    IN  IF Len(history) >= 2 THEN history[1].tag ELSE NoneVal

\* deploy_state.py:95-100
get_previous_tag(state) ==
    LET history == get_history(state, 2)
    IN  IF Len(history) >= 2 THEN history[2].tag ELSE NoneVal

\* Not the code: the new entry is put at the end.
record_deploy_appended(state, tag, service) ==
    LET deployments == state \o <<[tag |-> tag, service |-> service]>>
    IN  SubSeq(deployments, 1, Min(MAX_HISTORY, Len(deployments)))

\* deploy_state.py:60-71: insert at the front, trim to MAX_HISTORY.
record_deploy(state, tag, service) ==
    LET deployments == <<[tag |-> tag, service |-> service]>> \o state
    IN  SubSeq(deployments, 1, Min(MAX_HISTORY, Len(deployments)))

\* cli.py:667-671
repos_to_check(service) ==
    (IF service \in {"api", "all"} THEN <<"api">> ELSE <<>>)
        \o (IF service \in {"frontend", "all"} THEN <<"frontend">> ELSE <<>>)

\* How a command ends: sys.exit(code), falling off its end (exit 0), or an
\* exception that leaves it.
wf_exit(code) == [wf EXCEPT !.pc = "done", !.exit = code]

\* record_deploy as the commands see it: the load (54) or the save (73) may
\* raise; otherwise the new object replaces the stored one.
RecordOutcomes == {"saved", "load raised", "save raised"}

\* cli.py:638-664: deploy-when-ready starts; without --tag the tag is made
\* from the git sha, and the command exits 1 when git fails.
StartWhenReady ==
    /\ wf.pc = "idle"
    /\ Len(store) < MaxHistoryLen
    /\ \E service \in Services, tag \in Tags \cup {NoneVal}, git \in Shas \cup {Raised} :
          LET begun == [NoWf EXCEPT !.cmd = "deploy_when_ready", !.service = service]
          IN  IF tag = NoneVal /\ git = Raised
              THEN wf' = [begun EXCEPT !.pc = "done", !.exit = "1"]
              ELSE wf' = [begun EXCEPT
                              !.tag = (IF tag = NoneVal THEN main_tag(git) ELSE tag),
                              !.todo = repos_to_check(service),
                              !.pc = "images"]
    /\ UNCHANGED <<commandVars, dash, cw, dns, rec, wfi, ges, store>>

\* Not the code: all_ready follows the last repository checked.
dwr_WaitLast ==
    /\ wf.cmd = "deploy_when_ready"
    /\ wf.pc = "images"
    /\ wf.todo # <<>>
    /\ \E ready \in {RTrue, RFalse, Raised} :
          IF ready = Raised
          THEN wf' = wf_exit(Raised)
          ELSE wf' = [wf EXCEPT !.todo = Tail(@), !.ready = Append(@, ready),
                                !.all_ready = (ready = RTrue)]
    /\ UNCHANGED <<commandVars, dash, cw, dns, rec, wfi, ges, store>>

\* cli.py:678-692: one pass of the loop over the repositories to check;
\* ready is what wait_for_image returned for each repository so far.
dwr_Wait ==
    /\ wf.cmd = "deploy_when_ready"
    /\ wf.pc = "images"
    /\ wf.todo # <<>>
    /\ \E ready \in {RTrue, RFalse, Raised} :
          IF ready = Raised
          THEN wf' = wf_exit(Raised)
          ELSE wf' = [wf EXCEPT !.todo = Tail(@), !.ready = Append(@, ready),
                                !.all_ready = (@ /\ ready = RTrue)]
    /\ UNCHANGED <<commandVars, dash, cw, dns, rec, wfi, ges, store>>

\* cli.py:694-699
dwr_AllReady ==
    /\ wf.cmd = "deploy_when_ready"
    /\ wf.pc = "images"
    /\ wf.todo = <<>>
    /\ wf' = IF ~wf.all_ready THEN wf_exit("1") ELSE [wf EXCEPT !.pc = "make"]
    /\ UNCHANGED <<commandVars, dash, cw, dns, rec, wfi, ges, store>>

\* Not the code: a non-zero exit of the deploy action is not looked at.
dwr_MakeUnchecked ==
    /\ wf.cmd = "deploy_when_ready"
    /\ wf.pc = "make"
    /\ \E rc \in {"zero", "nonzero", Raised} :
          IF rc = Raised
          THEN wf' = [wf_exit(Raised) EXCEPT !.make = rc]
          ELSE wf' = [wf EXCEPT !.make = rc, !.pc = "record"]
    /\ UNCHANGED <<commandVars, dash, cw, dns, rec, wfi, ges, store>>

\* cli.py:701-709: make deploy:with-tag TAG=<tag>
dwr_Make ==
    /\ wf.cmd = "deploy_when_ready"
    /\ wf.pc = "make"
    /\ \E rc \in {"zero", "nonzero", Raised} :
          IF rc = Raised
          THEN wf' = [wf_exit(Raised) EXCEPT !.make = rc]
          ELSE IF rc # "zero"
          THEN wf' = [wf_exit("1") EXCEPT !.make = rc]
          ELSE wf' = [wf EXCEPT !.make = rc, !.pc = "record"]
    /\ UNCHANGED <<commandVars, dash, cw, dns, rec, wfi, ges, store>>

\* cli.py:711-718: state.record_deploy(tag, service), then the command ends.
dwr_Record ==
    /\ wf.cmd = "deploy_when_ready"
    /\ wf.pc = "record"
    /\ \E out \in RecordOutcomes :
          IF out = "saved"
          THEN /\ store' = record_deploy(store, wf.tag, wf.service)
               /\ wf' = [wf_exit("0") EXCEPT !.records = @ + 1]
          ELSE /\ store' = store
               /\ wf' = [wf_exit(Raised) EXCEPT !.records = @ + 1]
    /\ UNCHANGED <<commandVars, dash, cw, dns, rec, wfi, ges>>

\* cli.py:799-817: rollback starts; without --to the target is the previous
\* tag of the history, and the command exits 1 when there is none.
StartRollback ==
    /\ wf.pc = "idle"
    /\ Len(store) < MaxHistoryLen
    /\ \E target_tag \in Tags \cup {NoneVal}, yes \in BOOLEAN, load \in {"loaded", Raised} :
          LET begun == [NoWf EXCEPT !.cmd = "rollback", !.service = "all", !.yes = yes,
                                    !.to = target_tag]
              target == IF target_tag = NoneVal THEN get_previous_tag(store)
                        ELSE target_tag
          IN  IF target_tag = NoneVal /\ load = Raised
              THEN wf' = [begun EXCEPT !.pc = "done", !.exit = Raised]
              ELSE IF target = NoneVal
              THEN wf' = [begun EXCEPT !.pc = "done", !.exit = "1"]
              ELSE wf' = [begun EXCEPT !.tag = target, !.pc = "verify"]
    /\ UNCHANGED <<commandVars, dash, cw, dns, rec, wfi, ges, store>>

\* cli.py:819-826: the image must exist in the api repository.
rb_Verify ==
    /\ wf.cmd = "rollback"
    /\ wf.pc = "verify"
    /\ \E found \in {RTrue, RFalse, Raised} :
          wf' = IF found = Raised THEN wf_exit(Raised)
                ELSE IF found = RFalse THEN wf_exit("1")
                ELSE [wf EXCEPT !.pc = (IF wf.yes THEN "make" ELSE "confirm")]
    /\ UNCHANGED <<commandVars, dash, cw, dns, rec, wfi, ges, store>>

\* cli.py:828-832
rb_Confirm ==
    /\ wf.cmd = "rollback"
    /\ wf.pc = "confirm"
    /\ \E confirmed \in BOOLEAN :
          wf' = IF confirmed THEN [wf EXCEPT !.pc = "make"] ELSE wf_exit("0")
    /\ UNCHANGED <<commandVars, dash, cw, dns, rec, wfi, ges, store>>

\* cli.py:834-845: make deploy:with-tag TAG=<target_tag>
rb_Make ==
    /\ wf.cmd = "rollback"
    /\ wf.pc = "make"
    /\ \E rc \in {"zero", "nonzero", Raised} :
          IF rc = Raised
          THEN wf' = [wf_exit(Raised) EXCEPT !.make = rc]
          ELSE IF rc # "zero"
          THEN wf' = [wf_exit("1") EXCEPT !.make = rc]
          ELSE wf' = [wf EXCEPT !.make = rc, !.pc = "record"]
    /\ UNCHANGED <<commandVars, dash, cw, dns, rec, wfi, ges, store>>

\* cli.py:847-850: state.record_deploy(target_tag, "all"), then the command ends.
rb_Record ==
    /\ wf.cmd = "rollback"
    /\ wf.pc = "record"
    /\ \E out \in RecordOutcomes :
          IF out = "saved"
          THEN /\ store' = record_deploy(store, wf.tag, "all")
               /\ wf' = [wf_exit("0") EXCEPT !.records = @ + 1]
          ELSE /\ store' = store
               /\ wf' = [wf_exit(Raised) EXCEPT !.records = @ + 1]
    /\ UNCHANGED <<commandVars, dash, cw, dns, rec, wfi, ges>>

\* The command's process has ended; the history object stays.
FinishWorkflow ==
    /\ wf.pc = "done"
    /\ wf' = NoWf
    /\ UNCHANGED <<commandVars, dash, cw, dns, rec, wfi, ges, store>>

InitHistory == Init /\ tfColor = "blue" /\ asg = [e \in Envs |-> NoAsg]

NextHistory ==
    \/ StartWhenReady
    \/ dwr_Wait
    \/ dwr_AllReady
    \/ dwr_Make
    \/ dwr_Record
    \/ StartRollback
    \/ rb_Verify
    \/ rb_Confirm
    \/ rb_Make
    \/ rb_Record
    \/ FinishWorkflow

SpecHistory == InitHistory /\ [][NextHistory]_vars

\* --------------------------------------------------- DeployState used alone
\* A sequence of record_deploy calls on one DeployState, each with a tag of
\* its own (the n-th call records the image of the n-th commit), and the tag
\* queries in between. Long enough for the history to reach MAX_HISTORY.
MaxCalls == 52
nth_tag(n) == main_tag(ToString(n))

\* deploy_state.py:40-73: record_deploy(tag) with the default service; the
\* load or the save may raise, and then nothing is stored.
rec_Record ==
    /\ rec.calls < MaxCalls
    /\ \E out \in RecordOutcomes :
          IF out = "saved"
          THEN /\ store' = record_deploy(store, nth_tag(rec.calls + 1), "all")
               /\ rec' = [NoRec EXCEPT !.calls = rec.calls + 1, !.outcome = out]
          ELSE /\ store' = store
               /\ rec' = [NoRec EXCEPT !.calls = rec.calls, !.outcome = out]
    /\ UNCHANGED <<commandVars, dash, cw, dns, wfi, ges, wf>>

\* deploy_state.py:88-100: get_current_tag() and get_previous_tag()
rec_Query ==
    /\ rec.current = NotReturned
    /\ rec' = [rec EXCEPT !.current = get_current_tag(store),
                          !.previous = get_previous_tag(store)]
    /\ UNCHANGED <<commandVars, dash, cw, dns, wfi, ges, wf, store>>

InitRecords == Init /\ tfColor = "blue" /\ asg = [e \in Envs |-> NoAsg]

NextRecords ==
    \/ rec_Record
    \/ rec_Query

SpecRecords == InitRecords /\ [][NextRecords]_vars

\* ------------------------------------------------------ dns_updater.handler
\* Of the event only the presence of the instance id, the hook name and the
\* token matters to the handler; of the instance only whether it has a
\* public IP yet. returned is the status code, or Raised when an exception
\* left the handler.
polls == 10

\* dns_updater.py:116-132: one call of complete_lifecycle_action when the hook
\* name and the token are there; its failure is caught and only printed.
complete_lifecycle_action(d, ok) ==
    IF d.hook /\ d.token
    THEN [d EXCEPT !.api_calls = @ + 1, !.continued = ok]
    ELSE d

\* dns_updater.py:14-33
StartHandler ==
    /\ dns.pc = "idle"
    /\ \E id \in BOOLEAN, hook \in BOOLEAN, token \in BOOLEAN :
          LET event == [NoDns EXCEPT !.instance_id = id, !.hook = hook,
                                     !.token = token]
          IN  dns' = IF ~id THEN [event EXCEPT !.pc = "done", !.returned = "400"]
                     ELSE [event EXCEPT !.pc = "poll"]
    /\ UNCHANGED <<commandVars, dash, cw, wfi, ges, wf, store, rec>>

\* dns_updater.py:37-49: one pass of the polling loop. describe_instances is
\* outside the try, so its exception leaves the handler; a response without
\* the instance is caught and counts as no address yet.
dns_Poll ==
    /\ dns.pc = "poll"
    /\ \E seen \in {"ip", "no ip", "no reservation", Raised} :
          IF seen = Raised
          THEN dns' = [dns EXCEPT !.pc = "done", !.returned = Raised]
          ELSE IF seen = "ip"
          THEN dns' = [dns EXCEPT !.public_ip = TRUE, !.pc = "config"]
          ELSE dns' = [dns EXCEPT !.attempt = @ + 1,
                                  !.pc = (IF dns.attempt + 1 = polls THEN "no ip"
                                          ELSE "poll")]
    /\ UNCHANGED <<commandVars, dash, cw, wfi, ges, wf, store, rec>>

\* dns_updater.py:51-57
dns_NoIp ==
    /\ dns.pc = "no ip"
    /\ \E ok \in BOOLEAN :
          dns' = [complete_lifecycle_action(dns, ok) EXCEPT
                      !.pc = "done", !.returned = "500"]
    /\ UNCHANGED <<commandVars, dash, cw, wfi, ges, wf, store, rec>>

\* dns_updater.py:59-79: the zone, the domains and the TTL come from the
\* environment; a missing variable or a TTL that is no number raises.
dns_Config ==
    /\ dns.pc = "config"
    /\ \E env \in {"domains", "no domains", Raised} :
          dns' = IF env = Raised THEN [dns EXCEPT !.pc = "done", !.returned = Raised]
                 ELSE [dns EXCEPT !.changes = (env = "domains"), !.pc = "update"]
    /\ UNCHANGED <<commandVars, dash, cw, wfi, ges, wf, store, rec>>

\* dns_updater.py:81-97
dns_Update ==
    /\ dns.pc = "update"
    /\ \E changed \in BOOLEAN, ok \in BOOLEAN :
          dns' = IF ~dns.changes THEN [dns EXCEPT !.pc = "finish"]
                 ELSE IF changed THEN [dns EXCEPT !.updated = TRUE, !.pc = "finish"]
                 ELSE [complete_lifecycle_action(dns, ok) EXCEPT
                           !.pc = "done", !.returned = "500"]
    /\ UNCHANGED <<commandVars, dash, cw, wfi, ges, wf, store, rec>>

\* dns_updater.py:99-113
dns_Finish ==
    /\ dns.pc = "finish"
    /\ \E ok \in BOOLEAN :
          dns' = [complete_lifecycle_action(dns, ok) EXCEPT
                      !.pc = "done", !.returned = "200"]
    /\ UNCHANGED <<commandVars, dash, cw, wfi, ges, wf, store, rec>>

\* The invocation is over.
FinishHandler ==
    /\ dns.pc = "done"
    /\ dns' = NoDns
    /\ UNCHANGED <<commandVars, dash, cw, wfi, ges, wf, store, rec>>

InitHandler == Init /\ tfColor = "blue" /\ asg = [e \in Envs |-> NoAsg]

NextHandler ==
    \/ StartHandler
    \/ dns_Poll
    \/ dns_NoIp
    \/ dns_Config
    \/ dns_Update
    \/ dns_Finish
    \/ FinishHandler

SpecHandler == InitHandler /\ [][NextHandler]_vars

\* -------------------------------------------- record_deploy, two at a time
\* Two workflows (two operators' processes) each call record_deploy on the
\* one history object. A call is a load (deploy_state.py:54), a change of the
\* loaded copy (60-71) and a save of that copy (73); S3 get_object and
\* put_object are each atomic, nothing ties the two together.
cw_Load(x) ==
    /\ cw.w[x].pc = "idle"
    /\ Len(store) < MaxHistoryLen
    /\ \E tag \in Tags, out \in {"loaded", Raised} :
          cw' = [cw EXCEPT !.w[x] = IF out = Raised THEN [NoWriter EXCEPT !.pc = Raised]
                                    ELSE [pc |-> "loaded", tag |-> tag, state |-> store]]
    /\ UNCHANGED <<commandVars, dash, wfi, ges, wf, store, rec, dns>>

\* deploy_state.py:60-73: the loaded copy with the new entry in front replaces
\* the stored object.
cw_Save(x) ==
    /\ cw.w[x].pc = "loaded"
    /\ \E out \in {"saved", Raised} :
          IF out = "saved"
          THEN /\ store' = record_deploy(cw.w[x].state, cw.w[x].tag, "all")
               /\ cw' = [cw EXCEPT !.w[x].pc = "done", !.completed = @ + 1]
          ELSE /\ store' = store
               /\ cw' = [cw EXCEPT !.w[x].pc = Raised]
    /\ UNCHANGED <<commandVars, dash, wfi, ges, wf, rec, dns>>

\* Both workflows are over (or have not called); the next ones can start.
cw_Next ==
    /\ \A x \in Writers : cw.w[x].pc # "loaded"
    /\ \E x \in Writers : cw.w[x].pc # "idle"
    /\ cw' = [cw EXCEPT !.w = [x \in Writers |-> NoWriter]]
    /\ UNCHANGED <<commandVars, dash, wfi, ges, wf, store, rec, dns>>

InitWriters == Init /\ tfColor = "blue" /\ asg = [e \in Envs |-> NoAsg]

NextWriters ==
    \/ \E x \in Writers : cw_Load(x)
    \/ \E x \in Writers : cw_Save(x)
    \/ cw_Next

SpecWriters == InitWriters /\ [][NextWriters]_vars

\* ------------------------------------- the dashboard's scale-down action
\* interactive.py:422: make deploy:scale-down-<inactive_env>
make_scale_down(inactive_env) ==
    IF inactive_env = "blue" THEN "make deploy:scale-down-blue"
    ELSE "make deploy:scale-down-green"

\* interactive.py:407-414: the action resolves the active environment, takes
\* the other colour as the one to scale down (blue for anything that is not
\* "blue"), and reads the active capacity through a resolution of its own.
\* None of this is inside the try: an exception leaves run_action.
dash_Resolve ==
    /\ dash.pc = "idle"
    /\ \E tf \in TfOutcomes, aws \in AwsOutcomes, tf2 \in TfOutcomes,
          aws2 \in AwsOutcomes, aws3 \in AwsOutcomes :
          LET active_env == Resolve(tf, aws)
              active2 == Resolve(tf2, aws2)
          IN  IF active_env = Raised \/ capacity_raises(active2, aws3)
              THEN dash' = [NoDash EXCEPT !.pc = "done", !.returned = Raised]
              ELSE dash' = [NoDash EXCEPT
                               !.pc = "confirm",
                               !.active_env = active_env,
                               !.inactive_env = complement(active_env),
                               !.active_capacity =
                                   get_active_capacity(asg[asg_of(active2)])]
    /\ UNCHANGED <<commandVars, wfi, ges, wf, store, rec, dns, cw>>

\* interactive.py:416-418
dash_Confirm ==
    /\ dash.pc = "confirm"
    /\ \E confirmed \in BOOLEAN :
          dash' = IF confirmed THEN [dash EXCEPT !.confirmed = TRUE, !.pc = "run"]
                  ELSE [dash EXCEPT !.pc = "done", !.returned = RTrue]
    /\ UNCHANGED <<commandVars, wfi, ges, wf, store, rec, dns, cw>>

\* interactive.py:420-436: the command runs; whether it succeeds or raises,
\* the action returns True.
dash_Run ==
    /\ dash.pc = "run"
    /\ dash' = [dash EXCEPT !.cmd = make_scale_down(dash.inactive_env),
                            !.pc = "done", !.returned = RTrue]
    /\ UNCHANGED <<commandVars, wfi, ges, wf, store, rec, dns, cw>>

\* Back in the dashboard's loop.
dash_Return ==
    /\ dash.pc = "done"
    /\ dash' = NoDash
    /\ UNCHANGED <<commandVars, wfi, ges, wf, store, rec, dns, cw>>

NextDashboard ==
    \/ dash_Resolve
    \/ dash_Confirm
    \/ dash_Run
    \/ dash_Return

SpecDashboard == Init /\ [][NextDashboard]_vars

\* ------------------------------------------------------------------ claims
InLog(e) == \E i \in DOMAIN log : log[i] = e
DeployCmds == {"make deploy:new-blue", "make deploy:new-green"}
SwitchCmds == {"make deploy:flip", "make deploy:rollback"}
Switched == \E i \in DOMAIN log : log[i] \in SwitchCmds

\* C1: when deploy_to_inactive or deploy_and_flip resolves the active
\* environment to 'unknown', it has returned False and nothing was prompted,
\* triggered, restarted, monitored or switched.
C1_UnknownNeverDeploys ==
    (op \in {"deploy", "deploy_and_flip"}
       /\ (dti.active_env = "unknown" \/ daf.active_env = "unknown"))
    => /\ pc = "done"
       /\ result = RFalse
       /\ dti.active_env = "unknown" => dtiResult = RFalse
       /\ log = <<>>
       /\ nSamples = 0
       /\ monEnv = NotReturned

C1_Witness ==
    /\ op = "deploy_and_flip"
    /\ daf.active_env = "blue"
    /\ dti.active_env = "unknown"
    /\ result = RFalse

\* C2 (as claimed): when flip_traffic resolves the active environment to
\* 'unknown', no traffic-switch action is invoked and it reports failure.
C2_UnknownNeverFlips ==
    flip.active_env = "unknown"
    => /\ ~Switched
       /\ pc = "done" => result = RFalse

\* C3 (as claimed): after every failure of the terraform query (timeout,
\* non-zero exit, unparsable output) get_active_environment returns what the
\* capacity heuristic gives, after a warning in the timeout case.
C3_FallbackOnEveryFailure ==
    (resOutcome \in {"timeout", "exit_nonzero", "unparsable"} /\ resAws = "ok")
    => /\ resValue = heuristic(asg_capacity(asg["blue"]), asg_capacity(asg["green"]))
       /\ resOutcome = "timeout" => resWarned

\* C4 (as claimed): every value get_active_environment returns is one of
\* 'blue', 'green' and 'unknown'.
C4_ResolvedValues ==
    resValue \notin {NotReturned, Raised} => resValue \in {"blue", "green", "unknown"}

\* C5: when the heuristic runs (the terraform query failed otherwise than by
\* timeout), the result is 'blue' iff blue > 0 and green = 0, 'green' iff
\* green > 0 and blue = 0, and 'unknown' otherwise, a missing group counting 0.
C5_Heuristic ==
    (resOutcome \in {"exit_nonzero", "unparsable"} /\ resAws = "ok")
    => LET b == IF asg["blue"].found THEN asg["blue"].DesiredCapacity ELSE 0
           g == IF asg["green"].found THEN asg["green"].DesiredCapacity ELSE 0
       IN  /\ resValue = "blue" <=> (b > 0 /\ g = 0)
           /\ resValue = "green" <=> (g > 0 /\ b = 0)
           /\ resValue = "unknown" <=> ((b = 0 /\ g = 0) \/ (b > 0 /\ g > 0))

C5_Witness ==
    /\ resOutcome = "exit_nonzero"
    /\ resAws = "ok"
    /\ ~asg["blue"].found
    /\ asg["green"].found /\ asg["green"].DesiredCapacity > 0
    /\ resValue = "green"

\* C6: whenever the deploy trigger has been invoked, deploy_to_inactive had
\* resolved the active environment to blue or green and the trigger ran on the
\* other one.
C6_TargetIsComplement ==
    /\ \A i \in DOMAIN log :
          log[i] \in DeployCmds
          => \/ dti.active_env = "blue" /\ log[i] = "make deploy:new-green"
             \/ dti.active_env = "green" /\ log[i] = "make deploy:new-blue"
    /\ pc = "dti_trigger"
          => /\ dti.active_env \in Envs
             /\ cmd.target \in Envs \ {dti.active_env}

C6_Witness ==
    /\ op = "deploy_and_flip"
    /\ dti.active_env = "green"
    /\ InLog("make deploy:new-blue")

\* C7: when the confirmation of deploy_to_inactive is declined, it has
\* returned False and the prompt is all that happened: no trigger, no
\* celery-beat termination, no monitoring.
C7_DeclinedNoEffects ==
    (op = "deploy" /\ answer = "no")
    => /\ pc = "done"
       /\ result = RFalse
       /\ log = <<"confirm">>
       /\ cmd = NoCmd
       /\ nSamples = 0
       /\ monEnv = NotReturned

C7_Witness ==
    /\ op = "deploy"
    /\ answer = "no"
    /\ dti.target_env = "green"
    /\ result = RFalse

\* The predicate as the claim words it: every configured target group has
\* entries, all 'healthy' or all 'unused', and the sample lists at least
\* desired_capacity instances.
Entries(st, g) == IF g \in DOMAIN st.health THEN st.health[g] ELSE <<>>
AllAre(tg, s) == \A i \in DOMAIN tg : tg[i] = s
ClaimConverged(st) ==
    /\ \A g \in TargetGroups :
          /\ Entries(st, g) # <<>>
          /\ AllAre(Entries(st, g), "healthy") \/ AllAre(Entries(st, g), "unused")
    /\ st.instances >= st.desired_capacity

C9_FirstReadyReturns ==
    op = "monitor"
    => /\ nReady <= 1
       /\ (nReady = 1 /\ pc # "mon_eval")
             => (pc = "done" /\ monResult = RTrue /\ nSleeps = nSamples - 1)
       /\ monResult = RTrue
             => (nReady = 1 /\ monitor_ready(status) /\ elapsed = check_interval * (nSamples - 1))

C9_Witness ==
    /\ op = "monitor"
    /\ monResult = RTrue
    /\ nSamples = 2
    /\ nSleeps = 1

\* C10: the monitor draws at most max_wait_time / check_interval samples, and
\* when it returns False no sample was ready, exactly that many were drawn and
\* the timeout has been reached.
C10_BoundedSamples ==
    op = "monitor"
    => /\ nSamples <= max_wait_time \div check_interval
       /\ nSleeps <= max_wait_time \div check_interval
       /\ elapsed <= max_wait_time
       /\ monResult = RFalse
             => /\ nReady = 0
                /\ nSamples = max_wait_time \div check_interval
                /\ elapsed >= max_wait_time
       /\ (pc = "mon_loop" /\ ~loop_continues(elapsed)) => nReady = 0

C10_Witness ==
    /\ op = "monitor"
    /\ monResult = RFalse
    /\ nSamples = max_wait_time \div check_interval
    /\ nReady = 0


\* The ways deploy_to_inactive fails once it has started: the capacity read
\* or the trigger fails, the trigger exits non-zero or is interrupted, the
\* wait times out, raises or is interrupted, or it returned False.
DeployFailed ==
    \/ ext.capacity = "error"
    \/ ext.trigger \in {"exit_nonzero", "popen_error", "interrupt"}
    \/ monResult \in {RFalse, Raised, "KeyboardInterrupt"}
    \/ dtiResult = RFalse
FlipSteps == {"daf_wait", "flip_resolve", "flip_confirm", "flip_run"}

\* C11: in deploy_and_flip a traffic-switch action is invoked (and the flip
\* is entered) only after deploy_to_inactive returned True, which means the
\* trigger exited zero and the wait returned True; when the deploy failed,
\* timed out or was interrupted, deploy_and_flip has returned False and no
\* switch action was invoked.
C11_FlipOnlyAfterDeployTrue ==
    op = "deploy_and_flip" =>
        /\ (Switched \/ pc \in FlipSteps \/ flipResult # NotReturned) =>
              /\ dtiResult = RTrue
              /\ ext.trigger = "exit_zero"
              /\ monResult = RTrue
        /\ DeployFailed =>
              /\ pc = "done"
              /\ result = RFalse
              /\ ~Switched
              /\ flipResult = NotReturned
C11_Witness ==
    /\ op = "deploy_and_flip"
    /\ Switched
    /\ dtiResult = RTrue


Pos(S) == {i \in DOMAIN log : log[i] \in S}

\* The order of a deploy_and_flip run that reached a switch action: nothing
\* was prompted, the trigger came first, then the wait on the deploy target,
\* which returned True, then wait_seconds sleeps, then the switch action.
C12_Order ==
    (op = "deploy_and_flip" /\ Switched) =>
        /\ ~InLog("confirm")
        /\ monResult = RTrue
        /\ dtiResult = RTrue
        /\ monEnv = dti.target_env
        /\ \A s \in Pos(SwitchCmds) :
              \E d \in Pos(DeployCmds), m \in Pos({"monitor"}) :
                 /\ d < m
                 /\ m < s
                 /\ log[d] = make_deploy(dti.target_env)
                 /\ Cardinality({k \in Pos({"sleep"}) : m < k /\ k < s}) = wait_seconds

\* C12: a deploy_and_flip run that reached a switch action went through
\* deploy (not prompted), convergence of the deploy target, the whole
\* stabilization period and then the switch, in this order, and the switch
\* action is the one for the environment that was deployed and converged.
C12_OrderedOnSameTarget ==
    (op = "deploy_and_flip" /\ Switched) =>
        /\ C12_Order
        /\ flip.target_env = dti.target_env
        /\ \A s \in Pos(SwitchCmds) :
              log[s] = (IF dti.target_env = "green" THEN "make deploy:flip"
                        ELSE "make deploy:rollback")

\* C13: every switch action flip_traffic has invoked is make deploy:flip when
\* its target is green and make deploy:rollback when its target is blue; an
\* invocation invokes at most one switch action, and exactly one once the
\* action has come back (successfully or not).
C13_OneActionByTarget ==
    /\ Cardinality(Pos(SwitchCmds)) <= 1
    /\ \A s \in Pos(SwitchCmds) :
          /\ flip.target_env \in Envs
          /\ flip.target_env = "green" => log[s] = "make deploy:flip"
          /\ flip.target_env = "blue" => log[s] = "make deploy:rollback"
          /\ (op = "flip" /\ target_arg # NoneVal) => flip.target_env = target_arg
    /\ (flipResult = RTrue \/ ext.switch # NotReturned) => Cardinality(Pos(SwitchCmds)) = 1
C13_Witness ==
    /\ op = "flip"
    /\ flip.target_env = "blue"
    /\ flipResult = RTrue
    /\ log[Len(log)] = "make deploy:rollback"

\* C14: when the confirmation of flip_traffic is declined it has returned
\* False and no switch action was invoked; every switch action was invoked
\* with skip_confirm set or after a prompt that was answered yes.
C14_SwitchOnlyConfirmed ==
    /\ (op = "flip" /\ InLog("confirm") /\ answer = "no") =>
          /\ pc = "done"
          /\ flipResult = RFalse
          /\ result = RFalse
          /\ ~Switched
          /\ ext.switch = NotReturned
    /\ \A s \in Pos(SwitchCmds) :
          \/ skip_confirm
          \/ /\ answer = "yes"
             /\ \E c \in Pos({"confirm"}) : c < s
C14_Witness ==
    /\ op = "flip"
    /\ ~skip_confirm
    /\ answer = "no"
    /\ flipResult = RFalse

\* C15: when the switch action failed, flip_traffic has returned False and
\* the invocation is over with that one switch action invoked: it is not
\* run again before a new invocation.
C15_FailedSwitchNotRetried ==
    ext.switch = "called_process_error" =>
        /\ flipResult = RFalse
        /\ result = RFalse
        /\ pc = "done"
        /\ Cardinality(Pos(SwitchCmds)) = 1
        /\ log[Len(log)] \in SwitchCmds
C15_Witness ==
    /\ op = "flip"
    /\ ext.switch = "called_process_error"
    /\ flipResult = RFalse

\* C16: when the deploy trigger exited non-zero, deploy_to_inactive has
\* returned False at once: the celery-beat restart and the convergence wait
\* were not started, and the trigger was invoked once (it is invoked at most
\* once in any invocation).
C16_NonZeroAborts ==
    /\ Cardinality(Pos(DeployCmds)) <= 1
    /\ ext.trigger = "exit_nonzero" =>
          /\ pc = "done"
          /\ dtiResult = RFalse
          /\ result = RFalse
          /\ Cardinality(Pos(DeployCmds)) = 1
          /\ log[Len(log)] \in DeployCmds
          /\ ext.beat = NotReturned
          /\ monEnv = NotReturned
          /\ nSamples = 0
          /\ monResult = NotReturned
C16_Witness ==
    /\ op = "deploy"
    /\ ext.trigger = "exit_nonzero"
    /\ dtiResult = RFalse

RestartMissed == {"describe_error", "no_group", "no_instance", "terminate_error"}

\* C17: when the celery-beat group was not found, had no instance, or a call
\* of the restart failed, deploy_to_inactive has gone on to the convergence
\* wait on its target, and what it returns is what the wait returned: it
\* returns False only when the wait did not return True.
C17_RestartBestEffort ==
    ext.beat \in RestartMissed =>
        /\ ext.trigger = "exit_zero"
        /\ InLog("monitor")
        /\ monEnv = dti.target_env
        /\ dtiResult # NotReturned =>
              /\ monResult # NotReturned
              /\ monResult \in {RTrue, RFalse} => dtiResult = monResult
              /\ dtiResult = RFalse => monResult # RTrue
C17_Witness ==
    /\ ext.beat = "terminate_error"
    /\ monResult = RTrue
    /\ dtiResult = RTrue

\* The steps of deploy_to_inactive that leave an event, in the claimed order.
StepRank(e) ==
    CASE e = "confirm" -> 1
      [] e = "read capacity" -> 2
      [] e \in DeployCmds -> 3
      [] e = "restart celery-beat" -> 4
      [] e = "terminate celery-beat" -> 5
      [] e = "monitor" -> 6
      [] OTHER -> 7
DtiEvents == {"confirm", "read capacity", "restart celery-beat",
              "terminate celery-beat", "monitor"} \cup DeployCmds

\* C18: in deploy_to_inactive the active environment is resolved before
\* anything else happens, the events come in the order confirm, read
\* capacity, trigger, restart, wait, each one only after the one before it has
\* finished, the wait is on the target, and after a successful trigger the
\* value returned is the boolean the wait returned.
C18_StepsInOrder ==
    op \in {"deploy", "deploy_and_flip"} =>
        /\ \A i, j \in DOMAIN log : i < j => StepRank(log[i]) < StepRank(log[j])
                                               \/ StepRank(log[j]) = 7
        /\ Pos(DtiEvents) # {} => dti.active_env \in Envs
        /\ InLog("read capacity") => skip_confirm \/ (InLog("confirm") /\ answer = "yes")
        /\ Pos(DeployCmds) # {} => InLog("read capacity") /\ ext.capacity = "ok"
        /\ InLog("restart celery-beat") => Pos(DeployCmds) # {} /\ ext.trigger = "exit_zero"
        /\ InLog("terminate celery-beat") => InLog("restart celery-beat")
        /\ InLog("monitor") =>
              /\ InLog("restart celery-beat")
              /\ ext.beat # NotReturned
              /\ monEnv = dti.target_env
        /\ nSamples > 0 => InLog("monitor")
        /\ (ext.trigger = "exit_zero" /\ dtiResult # NotReturned) =>
              /\ monResult # NotReturned
              /\ monResult \in {RTrue, RFalse} => dtiResult = monResult
C18_Witness ==
    /\ op = "deploy"
    /\ log = <<"confirm", "read capacity", "make deploy:new-green",
               "restart celery-beat", "terminate celery-beat", "monitor">>
    /\ monResult = RTrue
    /\ dtiResult = RTrue

\* C19: the capacity parameters of the deploy command are the desired, min
\* and max of the active environment's group when that group is found,
\* whatever the target's group holds, and 1/1/2 when it is not found.
C19_ActiveCapacityPreserved ==
    cmd # NoCmd =>
        LET active == asg[dti.active_env] IN
        /\ cmd.target = dti.target_env
        /\ active.found =>
              /\ cmd.desired = active.DesiredCapacity
              /\ cmd.min = active.MinSize
              /\ cmd.max = active.MaxSize
        /\ ~active.found =>
              /\ cmd.desired = 1
              /\ cmd.min = 1
              /\ cmd.max = 2
C19_Witness ==
    /\ cmd # NoCmd
    /\ Pos(DeployCmds) # {}
    /\ asg[dti.active_env].found
    /\ asg[dti.target_env].found
    /\ asg[dti.active_env].DesiredCapacity = 0
    /\ asg[dti.target_env].DesiredCapacity = 1
    /\ cmd.desired = 0

\* C20: when the convergence wait of deploy_to_inactive is interrupted by the
\* user, the wait ended before its time was up, deploy_to_inactive has
\* returned False (the command is over with result False, nothing raised),
\* and in deploy_and_flip no switch action was invoked.
C20_InterruptIsFailure ==
    (op \in {"deploy", "deploy_and_flip"} /\ monResult = "KeyboardInterrupt") =>
        /\ elapsed < max_wait_time
        /\ dtiResult = RFalse
        /\ result = RFalse
        /\ pc = "done"
        /\ ~Switched
        /\ flipResult = NotReturned
C20_Witness ==
    /\ op = "deploy_and_flip"
    /\ monResult = "KeyboardInterrupt"
    /\ nSamples > 1
    /\ result = RFalse

\* C21: when deploy_to_inactive returned True and the switch action then
\* failed, deploy_and_flip has reported deployed-but-not-flipped (never the
\* deployment-failed outcome, which is reported only when the deploy returned
\* False and nothing was switched), has returned False, and has run nothing
\* after that one switch action: no second switch, no further deploy command.
C21_DeployedNotFlipped ==
    op = "deploy_and_flip" =>
        /\ (dtiResult = RTrue /\ ext.switch = "called_process_error") =>
              /\ report = "deployed_not_flipped"
              /\ result = RFalse
              /\ pc = "done"
              /\ Cardinality(Pos(SwitchCmds)) = 1
              /\ Cardinality(Pos(DeployCmds)) = 1
              /\ log[Len(log)] \in SwitchCmds
        /\ report = "deployed_not_flipped" => dtiResult = RTrue /\ flipResult = RFalse
        /\ report = "deployment_failed" => dtiResult = RFalse /\ ~Switched
C21_Witness ==
    /\ op = "deploy_and_flip"
    /\ dtiResult = RTrue
    /\ ext.switch = "called_process_error"
    /\ report = "deployed_not_flipped"

Sleeps(n) == [i \in 1..n |-> "sleep"]

C23_DeclaredColourTrusted ==
    resOutcome = "ok" =>
        /\ resValue = tfColor
        /\ ~resLooked
        /\ ~resWarned
C23_Witness ==
    /\ resOutcome = "ok"
    /\ resAws = "error"
    /\ asg_capacity(asg["blue"]) > 0
    /\ asg_capacity(asg["green"]) > 0
    /\ heuristic(asg_capacity(asg["blue"]), asg_capacity(asg["green"])) # tfColor
    /\ resValue = tfColor

\* C24: wait_for_image returns True at the first check that finds the tag:
\* when it returned True the last check found it, the k checks made were
\* separated by k-1 sleeps (every earlier check was followed by a sleep, so
\* found nothing), and a check that found the tag is never followed by
\* another check; the base delays of the sleeps never decrease and never
\* exceed the cap.
C24_ReturnsAtFirstFind ==
    /\ wfi.result = RTrue =>
          /\ wfi.found
          /\ wfi.checks = wfi.attempt
          /\ Len(wfi.delays) = wfi.checks - 1
    /\ wfi.found =>
          /\ wfi.pc \in {"decide", "done"}
          /\ wfi.pc = "done" => wfi.result = RTrue
    /\ \A i, j \in DOMAIN wfi.delays :
          i <= j => wfi.delays[i] <= wfi.delays[j] /\ wfi.delays[j] <= max_delay
C24_Witness ==
    /\ wfi.result = RTrue
    /\ wfi.checks = 3
    /\ wfi.delays = <<2, 4>>

\* Every sleep of wait_for_image is at most timeout minus the elapsed seconds
\* measured in its iteration.
C25_SleepWithinMeasuredBudget ==
    wfi.delays # <<>> =>
        /\ wfi.pc = "check" => wfi.remaining = wfi.timeout - wfi.elapsed
        /\ wfi.actual_delay <= wfi.remaining * Tick

\* C25: wait_for_image never sleeps past the remaining timeout budget: every
\* sleep is at most timeout minus the elapsed time measured in its iteration,
\* and all its sleeps together never exceed timeout.
C25_NeverSleepsPastTimeout ==
    /\ C25_SleepWithinMeasuredBudget
    /\ wfi.slept <= wfi.timeout * Tick

\* C26: a call of wait_for_image always ends, after at most timeout + 1
\* checks; it sleeps only while elapsed is below timeout, and when it
\* returned False the elapsed time measured at its last check had reached
\* timeout and that check had not found the tag.
C26_TimesOutWithFalse ==
    /\ [](wfi.checks <= wfi.timeout + 1)
    /\ [](wfi.delays # <<>> => wfi.remaining >= 1)
    /\ [](wfi.result = RFalse =>
             /\ ~wfi.found
             /\ wfi.elapsed >= wfi.timeout
             /\ wfi.pc = "done")
    /\ (wfi.pc = "check") ~> (wfi.pc = "done")
C26_Witness ==
    /\ wfi.result = RFalse
    /\ wfi.timeout = MaxTimeout
    /\ wfi.checks = 5

\* C27: the delay computed after the n-th unsuccessful check is
\* min(2 * 2^min(n-1, 3), 15), that is 2, 4, 8, 15, 15, ..., and the jitter
\* added to it lies between 0 and 20% of that delay.
C27_BackoffSchedule ==
    /\ \A n \in DOMAIN wfi.delays :
          /\ wfi.delays[n] = (CASE n = 1 -> 2 [] n = 2 -> 4 [] n = 3 -> 8 [] OTHER -> 15)
          /\ wfi.delays[n] = Min(2 * (2 ^ Min(n - 1, 3)), 15)
    /\ wfi.delays # <<>> =>
          /\ wfi.delay = wfi.delays[Len(wfi.delays)]
          /\ wfi.jitter >= 0
          /\ wfi.jitter * 5 <= wfi.delay * Tick
C27_Witness ==
    /\ wfi.delays = <<2, 4, 8, 15, 15>>
    /\ wfi.jitter * 5 = wfi.delay * Tick

\* C28: when the environment's group does not exist get_environment_status
\* has returned (not raised) the status exists=False, desired capacity 0, no
\* instances, empty health, having made the group lookup and no other.
C28_MissingGroupStatus ==
    ges.asg_out = "missing" =>
        /\ ges.pc = "done"
        /\ ges.returned = "status"
        /\ ges.status = [exists |-> FALSE, desired_capacity |-> 0, instances |-> 0,
                         health |-> <<>>]
        /\ ges.lookups = <<"asg">>
        /\ ges.costs = <<>>
C28_Witness ==
    /\ ges.asg_out = "missing"
    /\ ges.returned = "status"
    /\ ~ges.status.exists

\* When the price history of a spot instance is empty its hourly cost is 0
\* and the call goes on.
C29_NoPriceCostsZero ==
    \A i \in DOMAIN ges.price_outs :
        ges.price_outs[i] = "none" =>
            /\ i \in DOMAIN ges.costs
            /\ ges.costs[i] = 0
            /\ ges.returned # Raised \/ Len(ges.price_outs) > i

\* C29: when the pricing lookup of an instance fails, by finding no price or
\* by raising, that instance's hourly cost is 0 and get_environment_status
\* does not raise because of it: it goes on to the complete status.
C29_PricingFailureCostsZero ==
    \A i \in DOMAIN ges.price_outs :
        ges.price_outs[i] \in {"none", "error"} =>
            /\ i \in DOMAIN ges.costs
            /\ ges.costs[i] = 0
            /\ ges.returned # Raised \/ Len(ges.price_outs) > i

\* C30: in deploy-when-ready and rollback record_deploy is called only after
\* the deploy action for the command's tag exited zero (never after a
\* non-zero exit, never when the action was not run), at most once per
\* command and exactly once when the command got past a successful action;
\* the stored history changes only by that call, which puts the deployed tag
\* in front.
C30_RecordOnlyAfterSuccess ==
    /\ [](wf.records > 0 => wf.make = "zero")
    /\ [](wf.records <= 1)
    /\ []((wf.pc = "done" /\ wf.make = "zero") => wf.records = 1)
    /\ [][store' # store =>
            /\ wf.make = "zero"
            /\ wf'.records = wf.records + 1
            /\ store' = <<[tag |-> wf.tag, service |-> wf.service]>> \o store]_vars
C30_Witness ==
    /\ wf.cmd = "rollback"
    /\ wf.pc = "done"
    /\ wf.make = "zero"
    /\ wf.records = 1
    /\ Len(store) = 3
    /\ store[1].tag = store[3].tag
    /\ store[2].service # "all"

\* C31: deploy-when-ready invokes the deploy action only after wait_for_image
\* returned True for every repository --service asks for; once an image was
\* not found the command invokes no deploy action, records nothing, leaves
\* the history as it was and ends with a failure.
SomeImageMissing == \E i \in DOMAIN wf.ready : wf.ready[i] = RFalse
C31_DeployOnlyWhenAllReady ==
    /\ []((wf.cmd = "deploy_when_ready" /\ wf.make # NotReturned) =>
            /\ Len(wf.ready) = Len(repos_to_check(wf.service))
            /\ \A i \in DOMAIN wf.ready : wf.ready[i] = RTrue)
    /\ [](SomeImageMissing =>
            /\ wf.make = NotReturned
            /\ wf.records = 0
            /\ wf.pc \in {"images", "done"}
            /\ wf.pc = "done" => wf.exit \in {"1", Raised})
    /\ [][SomeImageMissing => store' = store]_vars
C31_Witness ==
    /\ wf.cmd = "deploy_when_ready"
    /\ wf.service = "all"
    /\ wf.ready = <<RFalse, RTrue>>
    /\ wf.pc = "done"
    /\ wf.exit = "1"
    /\ Len(store) > 0

\* C32: after any sequence of record_deploy calls the history holds the
\* deployments recorded, newest first, the latest MAX_HISTORY of them at
\* most; get_current_tag is the tag of the latest one recorded and
\* get_previous_tag the tag recorded before it, None while there is none.
C32_NewestFirstAndCapped ==
    /\ Len(store) = Min(rec.calls, MAX_HISTORY)
    /\ \A i \in DOMAIN store : store[i].tag = nth_tag(rec.calls - i + 1)
    /\ rec.current # NotReturned =>
          /\ rec.current = (IF rec.calls >= 1 THEN nth_tag(rec.calls) ELSE NoneVal)
          /\ rec.previous = (IF rec.calls >= 2 THEN nth_tag(rec.calls - 1) ELSE NoneVal)
C32_Witness ==
    /\ rec.calls > MAX_HISTORY
    /\ Len(store) = MAX_HISTORY
    /\ rec.current = nth_tag(rec.calls)
    /\ rec.previous = nth_tag(rec.calls - 1)
    /\ store[MAX_HISTORY].tag = nth_tag(rec.calls - MAX_HISTORY + 1)

\* On each of the handler's three returns for an event with an instance id,
\* a hook name and a token, complete_lifecycle_action has been called once;
\* it is never called twice.
C33_OncePerReturn ==
    /\ dns.api_calls <= 1
    /\ (dns.returned \in {"200", "500"} /\ dns.hook /\ dns.token) => dns.api_calls = 1

\* C33: whenever the handler is over for an event that carries an instance
\* id, a hook name and a token, it has called complete_lifecycle_action
\* exactly once, so that the launching instance is not left waiting.
C33_CompletedWhenOver ==
    (dns.pc = "done" /\ dns.instance_id /\ dns.hook /\ dns.token) => dns.api_calls = 1

\* C34: when deploy_and_flip has run a switch action, the environment it
\* switched traffic to is the one deploy_to_inactive deployed to and saw
\* converge, also when another operator flipped between the two resolutions.
C34_FlipTargetIsDeployTarget ==
    (op = "deploy_and_flip" /\ Switched /\ ext.operator = "flipped") =>
        /\ monEnv = dti.target_env
        /\ flip.target_env = dti.target_env

\* C35: every record_deploy call that completed is in the stored history
\* (while under the cap), however the loads and saves of concurrent calls
\* interleave: the history holds as many entries as calls have completed,
\* and when two concurrent calls have both completed both their entries
\* are there, the later save's in front.
C35_NoDeploymentLost ==
    /\ cw.completed <= MAX_HISTORY => Len(store) = cw.completed
    /\ (\A x \in Writers : cw.w[x].pc = "done") =>
          /\ Len(store) >= 2
          /\ {store[1].tag, store[2].tag} = {cw.w[x].tag : x \in Writers}

\* C36: the dashboard's scale-down action has issued a scale-to-zero command
\* only when it resolved the active environment as blue or green, and then
\* for the other colour; the environment declared active, which serves the
\* traffic, is never the one the command scales to zero.
C36_ScaleDownOnlyComplement ==
    dash.cmd # NotReturned =>
        /\ dash.active_env \in Envs
        /\ dash.cmd = make_scale_down(complement(dash.active_env))
        /\ dash.cmd # make_scale_down(tfColor)

\* C37: a sample that reports exists=False or desired capacity 0 never makes
\* _monitor_deployment return True, whatever its health entries; while the
\* target's group keeps desired capacity 0 (or is missing) the wait does not
\* return True, its False is the timeout's (every sample drawn, the time
\* used up), and the deployment ends with False.
TargetAtZero == monEnv \in Envs /\ asg_capacity(asg[monEnv]) = 0
C37_ZeroCapacityNeverConverges ==
    /\ [][(pc = "mon_eval" /\ (~status.exists \/ status.desired_capacity = 0))
            => monResult' # RTrue]_vars
    /\ [](TargetAtZero =>
            /\ monResult # RTrue
            /\ dtiResult # RTrue
            /\ monResult = RFalse =>
                  /\ elapsed >= max_wait_time
                  /\ nSamples = max_wait_time \div check_interval
            /\ (op \in {"deploy", "deploy_and_flip"} /\ pc = "done") =>
                  (dtiResult = RFalse /\ result = RFalse))
C37_Witness ==
    /\ op = "deploy"
    /\ TargetAtZero
    /\ asg[monEnv].found
    /\ monResult = RFalse
    /\ nSamples = max_wait_time \div check_interval
    /\ dtiResult = RFalse
    /\ pc = "done"

\* C38: after the confirmation, when reading the active capacity raised, when
\* launching or streaming the deploy trigger raised, or when sampling during
\* the convergence wait raised, deploy_to_inactive has returned False: the
\* exception did not leave it, the failed step ran once, and no later step
\* ran (no trigger after a failed capacity read, no restart and no wait
\* after a failed trigger, no switch after a failed wait).
C38_ExceptionIsFalse ==
    op \in {"deploy", "deploy_and_flip"} =>
        /\ Cardinality(Pos({"read capacity"})) <= 1
        /\ Cardinality(Pos(DeployCmds)) <= 1
        /\ ext.capacity = "error" =>
              /\ pc = "done" /\ dtiResult = RFalse /\ result = RFalse
              /\ Pos(DeployCmds) = {}
              /\ ext.trigger = NotReturned /\ ext.beat = NotReturned
              /\ monEnv = NotReturned /\ nSamples = 0
        /\ trigger_raised(ext.trigger) =>
              /\ pc = "done" /\ dtiResult = RFalse /\ result = RFalse
              /\ ext.beat = NotReturned
              /\ monEnv = NotReturned /\ nSamples = 0
        /\ monResult = Raised =>
              /\ pc = "done" /\ dtiResult = RFalse /\ result = RFalse
              /\ nSleeps = nSamples - 1
              /\ ~Switched /\ flipResult = NotReturned
C38_Witness ==
    /\ op = "deploy"
    /\ ext.capacity = "ok"
    /\ ext.trigger = "exit_zero"
    /\ monResult = Raised
    /\ nSamples = 2
    /\ dtiResult = RFalse
    /\ pc = "done"

\* C39: a rollback without --to deploys the tag of the second entry of the
\* history (the one recorded just before the current one); when it succeeds
\* it records that tag in front, so that current and previous have changed
\* places, and a second default rollback on the result brings the current
\* tag back.
DefaultRollback == wf.cmd = "rollback" /\ wf.to = NoneVal
RolledBack(state) == record_deploy(state, get_previous_tag(state), "all")
C40_CheckBeforeTimeout ==
    /\ [](wfi.pc = "done" =>
            /\ wfi.checks >= 1
            /\ wfi.found <=> wfi.result = RTrue
            /\ wfi.timeout = 0 => wfi.checks = 1)
    /\ [](wfi.result = RFalse =>
            /\ ~wfi.found
            /\ wfi.elapsed >= wfi.timeout
            /\ wfi.now >= wfi.timeout * Tick)
    /\ [][(wfi.pc # "done" /\ wfi'.pc = "done") =>
            /\ wfi'.checks >= 1
            /\ wfi'.result \in {RTrue, RFalse} => (wfi.pc = "decide" /\ wfi'.checks = wfi.checks)
            /\ wfi'.result = Raised => wfi'.checks = wfi.checks + 1]_vars
C40_Witness ==
    /\ wfi.result = RTrue
    /\ wfi.timeout > 0
    /\ wfi.elapsed >= wfi.timeout
    /\ wfi.checks >= 2
====
